---- MODULE Spec2Model ----
(***************************************************************************)
(* The dual-playback coordinator of unified-player: a local video element  *)
(* (driven by shaka) and the Senza remote player kept consistent across    *)
(* lifecycle transitions.  The repository holds several variants of the    *)
(* coordinator class; `variant` says which one is constructed.             *)
(***************************************************************************)
EXTENDS Integers, Sequences, FiniteSets, TLC

\* ------------------------------------------------------------------ bounds
MaxTime == 1          \* playback positions range over 0..MaxTime
MaxEvents == 2        \* license-request events the remote player fires
MaxConfigure == 2     \* calls of configureDrm on one coordinator
MaxRegistrations == 2 \* times one coordinator's listeners are registered

\* --------------------------------------------------------------- variants
UnifiedLocalFirst  == "unifiedPlayer.js"          \* UnifiedPlayer, load local then remote
UnifiedRemoteFirst == "part_003"                  \* UnifiedPlayer, load remote then local
SenzaShaka         == "senzaShakaPlayer.js/1"     \* SenzaShakaPlayer with play/pause/currentTime
SenzaShakaSync     == "senzaShakaPlayer.js/2"     \* SenzaShakaPlayer syncing in moveToRemotePlayback
SenzaShakaAttach   == "shakaPlayer.js"            \* SenzaShakaPlayer with attach/detach
UnifiedLocalFirstDrm == "part_004"                \* UnifiedPlayer, local first, with configureDrm
ShakaTracks        == "part_005"                  \* ShakaPlayer with track selection

UnifiedVariants  == {UnifiedLocalFirst, UnifiedRemoteFirst}
FacadeVariants   == UnifiedVariants \cup {SenzaShaka}
PlaybackVariants == FacadeVariants \cup {SenzaShakaSync}
\* The shaka subclasses that leave play, pause and seeking to the element
ElementDriven    == {SenzaShakaSync, SenzaShakaAttach, ShakaTracks}

UiStates == {"foreground", "inTransitionToForeground",
             "background", "inTransitionToBackground"}
\* event.state values, one included that the handlers have no case for
LifecycleStates == UiStates \cup {"unknown"}
Urls  == {"a.mpd"}
None  == "none"
Times == 0..MaxTime

VARIABLES
  variant,          \* which coordinator class is in use
  lifecycleState,   \* lifecycle.state
  delivered,        \* an onstatechange event has been delivered since construction
  flag,             \* UnifiedPlayer's this.isInRemotePlayback field
  localTime,        \* videoElement.currentTime
  remoteTime,       \* remotePlayer.currentTime
  localPaused,      \* videoElement.paused
  remotePaused,     \* the remote player is not playing
  localUrl,         \* asset the local engine holds
  remoteUrl,        \* asset the remote player holds
  loadPc,           \* position of the pending load(): idle, remote, local, resolved, rejected
  loadUrl,          \* its argument
  loadRemoteOk,     \* whether the remote player's load of it succeeds
  loadLocalOk,      \* whether the local engine's load of it succeeds
  loadAttempted,    \* the engines whose load() this load has invoked
  loadErrors,       \* errors this load has logged
  playPc,           \* position of the pending play(): idle, local, remote, resolved, rejected
  playOk,           \* whether the local play promise resolves
  pausePc,          \* position of the pending pause(): idle, or local when it has
                    \* paused the element and has yet to go on to the remote player
  lastOp,           \* the handler that ran last
  arg,              \* <<v>> when it was given a position or an event, else <<>>
  calls,            \* the engine and lifecycle calls and the assignments of the mode
                    \* field it made, in order
  warnings,         \* console.warn calls it made
  events,           \* unified events it dispatched
  ret,              \* <<v>> when it returned a value, else <<>>
  drmListeners,     \* the license-request listeners configureDrm registered
  pending,          \* license exchanges whose HTTP request is in flight
  fired,            \* license-request events the remote player has fired
  posts,            \* per event, how many HTTP POSTs were sent for it
  writes,           \* per event, how many writeLicenseResponse calls were made on it
  lastPost,         \* the event the last handler posted for, and its requests
  lastWrite,        \* the writeLicenseResponse call the last handler made
  videoElement,     \* this.videoElement: "undefined", "video" or "null"
  videoListeners,   \* the element carries the coordinator's listeners
  remoteListeners,  \* the remote player carries the coordinator's ended/error listeners
  remoteAttached,   \* the remote player is attached to the element
  destroyed,        \* destroy() has run
  elementPc,        \* position of the pending attach() or detach() of shakaPlayer.js:
                    \* idle, attach (awaiting shaka's attach), detach (awaiting
                    \* shaka's detach), unload (awaiting remotePlayer.unload())
  registrations,    \* how many times the listeners that are closures of their own
                    \* were registered: by the constructor, and by each later call
                    \* of addEventListeners() (second SenzaShakaPlayer) or
                    \* addPlayerEventListeners() (part_005)
  seekedPending,    \* the element was given a position and has yet to fire seeked
  remoteAudioTracks,  \* remotePlayer.getAudioTracks()
  localAudioLanguage, \* the audio language the local engine was last told to select
  remoteAudioTrack,   \* the id the remote player was last told to select
  localTextLanguage,  \* the text language the local engine was last told to select
  remoteTextTrack,    \* what the remote player's selectTextTrack was last given
  tracksListener,     \* the application has put its tracksupdate listener on the
                      \* remote player
  observed          \* what the collaborators were last asked for: the lifecycle
                    \* requests not yet carried out, the position last written to
                    \* the remote player, the local position last synchronised

engineVars == <<localTime, remoteTime, localPaused, remotePaused, localUrl, remoteUrl>>
modeVars   == <<lifecycleState, delivered, flag>>
loadVars   == <<loadPc, loadUrl, loadRemoteOk, loadLocalOk, loadAttempted, loadErrors>>
playVars   == <<playPc, playOk, pausePc>>
outVars    == <<lastOp, arg, calls, warnings, events, ret>>
drmVars    == <<drmListeners, pending, fired, posts, writes, lastPost, lastWrite>>
attachVars == <<videoElement, videoListeners, remoteListeners, remoteAttached, destroyed,
                elementPc, registrations>>
trackVars  == <<remoteAudioTracks, localAudioLanguage, remoteAudioTrack,
                localTextLanguage, remoteTextTrack, tracksListener>>
vars == <<variant, modeVars, engineVars, loadVars, playVars, outVars, drmVars,
          attachVars, seekedPending, trackVars, observed>>

\* ------------------------------------------------------------------ mode

\* The getter answering true in the background state alone.
isInRemotePlaybackGetterBackgroundOnly(state) == state = "background"

\* SenzaShakaPlayer: get isInRemotePlayback()
isInRemotePlaybackGetter(state) ==
  state = "background" \/ state = "inTransitionToBackground"

\* The coordinator's isInRemotePlayback, as the variant in use computes it.
isInRemotePlayback ==
  IF variant \in UnifiedVariants THEN flag
  ELSE isInRemotePlaybackGetter(lifecycleState)

\* The handler taking a state it has no case for as a return to local mode.
OnStateChangeFlagUnknownLocal(state, old) ==
  CASE state = "background" -> TRUE
    [] state = "inTransitionToBackground" -> TRUE
    [] OTHER -> FALSE

\* The handler with a `break` ending the background case before it reaches the
\* assignment it falls through to.
OnStateChangeFlagNoFallthrough(state, old) ==
  CASE state = "inTransitionToBackground" -> TRUE
    [] state = "foreground" -> FALSE
    [] state = "inTransitionToForeground" -> FALSE
    [] OTHER -> old

\* UnifiedPlayer's onstatechange handler: the field after an event with `state`.
OnStateChangeFlag(state, old) ==
  CASE state = "background" -> TRUE
    [] state = "inTransitionToBackground" -> TRUE
    [] state = "foreground" -> FALSE
    [] state = "inTransitionToForeground" -> FALSE
    [] OTHER -> old

\* The handler leaving the element as it is in every state.
OnStateChangePausesNever(state) == FALSE

\* The handler pausing the element on every event.
OnStateChangePausesAlways(state) == TRUE

\* The handler pausing the element in the transitional state as well.
OnStateChangePausesOnTransition(state) ==
  state \in {"background", "inTransitionToBackground"}

\* UnifiedPlayer's onstatechange handler: whether it calls _localPlayerPause().
OnStateChangePausesLocal(state) == state = "background"

\* UnifiedPlayer's onstatechange handler: what it does, in the order of the
\* switch: the background case pauses and falls through to the assignment.
OnStateChangeCalls(state) ==
  (IF OnStateChangePausesLocal(state) THEN <<"video.pause">> ELSE <<>>)
  \o (CASE state \in {"background", "inTransitionToBackground"} ->
              <<"isInRemotePlayback=true">>
         [] state \in {"foreground", "inTransitionToForeground"} ->
              <<"isInRemotePlayback=false">>
         [] OTHER -> <<>>)

\* ---------------------------------------------------------------- output

\* new Event(type)
Event(type) == [type |-> type, detail |-> None]

\* new CustomEvent(type, init): the event takes init.detail
CustomEvent(type, init) == [type |-> type, detail |-> init.detail]

Out(op, a, cs, w, ev, r) ==
  /\ lastOp' = op
  /\ arg' = a
  /\ calls' = cs
  /\ warnings' = w
  /\ events' = ev
  /\ ret' = r

HasCall(cs, c) == \E i \in 1..Len(cs) : cs[i] = c

\* What n listeners of one event do between them, each doing cs: the event
\* target runs them one after the other.
Repeat(cs, n) == [i \in 1..(n * Len(cs)) |-> cs[((i - 1) % Len(cs)) + 1]]

\* How many listeners of one kind the remote player carries.  The second
\* SenzaShakaPlayer (addEventListeners) and part_005 (addPlayerEventListeners)
\* register arrow functions made on the spot, so every call adds another set;
\* the other classes register in their constructor only, shakaPlayer.js the
\* same function objects each time.
RemoteListenerRuns == registrations

\* How many play, pause and seeked listeners the element carries: the second
\* SenzaShakaPlayer's addEventListeners adds a set of new closures with every
\* call; part_005 adds the same three functions each time, which the element
\* keeps once.
ElementListenerRuns == IF variant = SenzaShakaSync THEN registrations ELSE 1

\* The collaborators left unobserved: the specifications that let the lifecycle
\* signal change state at will, and ask nothing about what was written to the
\* remote player, keep `observed` at this value.
\* A continuation that awaited a value that is no promise is queued as a
\* microtask: it runs before the next event is delivered, after the code that
\* called the function and after the continuations queued before it.  The
\* first SenzaShakaPlayer's pause() awaits the result of videoElement.pause().
MicrotaskQueued == pausePc = "local"

NotObserved == [on |-> FALSE, requests |-> {}, written |-> <<>>, synced |-> <<>>]

\* The collaborators under observation, nothing asked of them yet
NothingObserved == [on |-> TRUE, requests |-> {}, written |-> <<>>, synced |-> <<>>]

\* The states the lifecycle signal is asked for by lifecycle.moveToForeground()
\* and lifecycle.moveToBackground() among the calls cs
LifecycleRequests(cs) ==
  (IF HasCall(cs, "lifecycle.moveToForeground") THEN {"foreground"} ELSE {})
  \cup (IF HasCall(cs, "lifecycle.moveToBackground") THEN {"background"} ELSE {})

\* What the collaborators hold after the handler that has just run: the
\* lifecycle signal the requests it made, the remote player the position it
\* assigned to remotePlayer.currentTime; sync: the handler was a timeupdate of
\* the element, or an assignment of currentTime, in local mode.
Observe(sync) ==
  observed' =
    IF observed.on
    THEN [observed EXCEPT
            !.requests = @ \cup LifecycleRequests(calls'),
            !.written = IF HasCall(calls', "remote.setCurrentTime") THEN <<remoteTime'>> ELSE @,
            !.synced = IF sync THEN <<localTime'>> ELSE @]
    ELSE observed

\* lifecycle delivers onstatechange with `state`: a request for that state has
\* been carried out
LifecycleStateChange(state) ==
  /\ ~MicrotaskQueued
  /\ lifecycleState' = state
  /\ delivered' = TRUE
  /\ observed' = [observed EXCEPT !.requests = @ \ {state}]
  /\ IF variant \in UnifiedVariants
     THEN /\ flag' = OnStateChangeFlag(state, flag)
          /\ localPaused' = (IF OnStateChangePausesLocal(state) THEN TRUE ELSE localPaused)
          /\ Out("onstatechange", <<>>, OnStateChangeCalls(state), 0, <<>>, <<>>)
     ELSE /\ UNCHANGED <<flag, localPaused>>
          /\ Out("onstatechange", <<>>, <<>>, 0, <<>>, <<>>)
  /\ UNCHANGED <<variant, trackVars, localTime, remoteTime, remotePaused, localUrl, remoteUrl,
                 loadVars, playVars, drmVars,
                 attachVars, seekedPending>>

\* ----------------------------------------------------------- currentTime

\* The getter reading the remote player whatever the mode.
currentTimeAlwaysRemote == remoteTime

\* get currentTime()
currentTime ==
  IF isInRemotePlayback THEN remoteTime ELSE localTime

\* The setter without its mode check.
SetCurrentTimeAlwaysHonoured == TRUE

\* set currentTime(time): whether the assignment reaches the engines
SetCurrentTimeHonoured == ~isInRemotePlayback

GetCurrentTime ==
  /\ variant \in FacadeVariants
  /\ Out("get currentTime", <<>>, <<>>, 0, <<>>, <<currentTime>>)
  /\ UNCHANGED <<variant, observed, trackVars, modeVars, engineVars, loadVars, playVars, drmVars,
                 attachVars, seekedPending>>

\* The variants that listen to the element's seeked event: part_003 passes it
\* on, the later shaka subclasses copy the position to the remote player.
ListensSeeked == variant \in {UnifiedRemoteFirst, SenzaShakaSync, SenzaShakaAttach}

\* The element is given a position: it will fire seeked.
SeekedAfterAssignment == IF ListensSeeked THEN TRUE ELSE seekedPending

\* remotePlayer.currentTime = this.videoElement.currentTime = time
SetCurrentTime(time) ==
  /\ variant \in FacadeVariants
  /\ IF SetCurrentTimeHonoured
     THEN /\ localTime' = time
          /\ remoteTime' = time
          /\ seekedPending' = SeekedAfterAssignment
          /\ Out("set currentTime", <<time>>,
                 <<"video.setCurrentTime", "remote.setCurrentTime">>, 0, <<>>, <<>>)
     ELSE /\ UNCHANGED <<localTime, remoteTime, seekedPending>>
          /\ Out("set currentTime", <<time>>, <<>>, 1, <<>>, <<>>)
  /\ Observe(SetCurrentTimeHonoured)
  /\ UNCHANGED <<variant, trackVars, modeVars, localPaused, remotePaused, localUrl, remoteUrl,
                 loadVars, playVars, drmVars, attachVars>>

\* The argument of skip taken for the position to go to.
SkipTargetAbsolute(seconds) == seconds

\* skip(seconds): this.currentTime + seconds, the getter read in the mode at hand
SkipTarget(seconds) == currentTime + seconds

\* Amounts to skip by, forward and backward
SkipAmounts == {-1, 1}

\* skip(seconds) of SenzaShakaPlayer and of VideoManager over UnifiedPlayer:
\* this.currentTime = this.currentTime + seconds, getter and setter as above.
\* Targets are kept within the positions of the media.
Skip(seconds) ==
  /\ variant \in FacadeVariants
  /\ SkipTarget(seconds) \in Times
  /\ IF SetCurrentTimeHonoured
     THEN /\ localTime' = SkipTarget(seconds)
          /\ remoteTime' = SkipTarget(seconds)
          /\ seekedPending' = SeekedAfterAssignment
          /\ Out("skip", <<seconds>>,
                 <<"video.setCurrentTime", "remote.setCurrentTime">>, 0, <<>>, <<>>)
     ELSE /\ UNCHANGED <<localTime, remoteTime, seekedPending>>
          /\ Out("skip", <<seconds>>, <<>>, 1, <<>>, <<>>)
  /\ Observe(SetCurrentTimeHonoured)
  /\ UNCHANGED <<variant, trackVars, modeVars, localPaused, remotePaused, localUrl, remoteUrl,
                 loadVars, playVars, drmVars, attachVars>>

\* ------------------------------------------------------------------ pause

\* The getter answering with the element's flag whatever the mode.
pausedOfElement == localPaused

\* get paused()
paused == IF isInRemotePlayback THEN FALSE ELSE localPaused

GetPaused ==
  /\ variant \in FacadeVariants
  /\ Out("get paused", <<>>, <<>>, 0, <<>>, <<paused>>)
  /\ UNCHANGED <<variant, observed, trackVars, modeVars, engineVars, loadVars, playVars, drmVars,
                 attachVars, seekedPending>>

\* pause() pausing the element alone.
PauseCallsLocalOnly ==
  IF isInRemotePlayback THEN <<>> ELSE <<"video.pause">>

\* pause() without its mode check.
PauseCallsAlways == <<"video.pause", "remote.pause">>

\* pause(): the engine calls it makes
PauseCalls ==
  IF isInRemotePlayback THEN <<>> ELSE <<"video.pause", "remote.pause">>

\* pause(): the warnings it emits
PauseWarnings == IF isInRemotePlayback THEN 1 ELSE 0

\* pause(): whether it is an async function awaiting each engine's pause in
\* turn (the first SenzaShakaPlayer); UnifiedPlayer's pause is synchronous
PauseAwaits == variant = SenzaShaka

\* pause(): the calls it makes before it first yields
PauseFirstCalls ==
  IF PauseAwaits /\ PauseCalls # <<>> THEN <<Head(PauseCalls)>> ELSE PauseCalls

\* pause() is called.  In the first SenzaShakaPlayer it yields at
\* `await this.videoElement.pause()` with the remote player not yet paused.
Pause ==
  /\ variant \in FacadeVariants
  /\ pausePc = "idle"
  /\ localPaused' = (IF HasCall(PauseFirstCalls, "video.pause") THEN TRUE ELSE localPaused)
  /\ remotePaused' = (IF HasCall(PauseFirstCalls, "remote.pause") THEN TRUE ELSE remotePaused)
  /\ pausePc' = (IF Len(PauseFirstCalls) < Len(PauseCalls) THEN "local" ELSE "idle")
  /\ Out("pause", <<>>, PauseFirstCalls, PauseWarnings, <<>>, <<>>)
  /\ UNCHANGED <<variant, observed, trackVars, modeVars, localTime, remoteTime, localUrl, remoteUrl,
                 loadVars, playPc, playOk, drmVars,
                 attachVars, seekedPending>>

\* The first SenzaShakaPlayer: pause() runs on after `await
\* this.videoElement.pause()` and pauses the remote player, without looking at
\* the mode again.
PauseContinue ==
  /\ pausePc = "local"
  /\ pausePc' = "idle"
  /\ remotePaused' = TRUE
  /\ Out("pause continues", <<>>, <<"remote.pause">>, 0, <<>>, <<>>)
  /\ UNCHANGED <<variant, observed, trackVars, modeVars, localTime, remoteTime, localPaused,
                 localUrl, remoteUrl, loadVars, playPc, playOk, drmVars, attachVars,
                 seekedPending>>

\* ---------------------------------------------------- moveTo*Playback

\* moveToRemotePlayback() without the copy, in every variant.
MoveToRemoteNeverSyncs == FALSE

\* moveToRemotePlayback(): whether it first copies the local position to the
\* remote player
MoveToRemoteSyncs == variant = SenzaShakaSync

MoveToRemotePlayback ==
  /\ IF MoveToRemoteSyncs
     THEN /\ remoteTime' = localTime
          /\ Out("moveToRemotePlayback", <<>>,
                 <<"remote.setCurrentTime", "lifecycle.moveToBackground">>, 0, <<>>, <<>>)
     ELSE /\ UNCHANGED remoteTime
          /\ Out("moveToRemotePlayback", <<>>, <<"lifecycle.moveToBackground">>, 0, <<>>, <<>>)
  /\ Observe(FALSE)
  /\ UNCHANGED <<variant, trackVars, modeVars, localTime, localPaused, remotePaused, localUrl,
                 remoteUrl, loadVars, playVars, drmVars,
                 attachVars, seekedPending>>

\* moveToLocalPlayback(): the facade variants start the video element without
\* awaiting it (`allowed`: the browser lets the element play); the syncing
\* variant only asks for the foreground.
MoveToLocalPlayback(allowed) ==
  /\ IF variant \in FacadeVariants
     THEN /\ localPaused' = (IF allowed THEN FALSE ELSE localPaused)
          /\ Out("moveToLocalPlayback", <<>>, <<"video.play", "lifecycle.moveToForeground">>,
                 0, <<>>, <<>>)
     ELSE /\ allowed
          /\ UNCHANGED localPaused
          /\ Out("moveToLocalPlayback", <<>>, <<"lifecycle.moveToForeground">>, 0, <<>>, <<>>)
  /\ Observe(FALSE)
  /\ UNCHANGED <<variant, trackVars, modeVars, localTime, remoteTime, remotePaused, localUrl,
                 remoteUrl, loadVars, playVars, drmVars,
                 attachVars, seekedPending>>

\* ------------------------------------------------------------- timeupdate

\* The element's timeupdate listener (UnifiedPlayer, the first SenzaShakaPlayer):
\* whether it gets past its mode check
LocalTimeUpdateForwards == variant \in FacadeVariants /\ ~isInRemotePlayback

\* The element's timeupdate listener dispatching without a copy to the remote
\* player.
LocalTimeUpdateCallsNone == <<>>

\* The element's timeupdate listener: UnifiedPlayer copies the position to the
\* remote player before it dispatches, SenzaShakaPlayer only dispatches.
LocalTimeUpdateCalls ==
  IF variant \in UnifiedVariants THEN <<"remote.setCurrentTime">> ELSE <<>>

\* The local element reaches position `time` and fires timeupdate.
LocalTimeUpdate(time) ==
  /\ ~MicrotaskQueued
  /\ localUrl # None
  /\ localTime' = time
  /\ IF LocalTimeUpdateForwards
     THEN /\ remoteTime' = (IF HasCall(LocalTimeUpdateCalls, "remote.setCurrentTime")
                            THEN time ELSE remoteTime)
          /\ Out("video timeupdate", <<time>>, LocalTimeUpdateCalls, 0,
                 <<Event("timeupdate")>>, <<>>)
     ELSE /\ UNCHANGED remoteTime
          /\ Out("video timeupdate", <<time>>, <<>>, 0, <<>>, <<>>)
  /\ Observe(~isInRemotePlayback)
  /\ UNCHANGED <<variant, trackVars, modeVars, localPaused, remotePaused, localUrl, remoteUrl,
                 loadVars, playVars, drmVars,
                 attachVars, seekedPending>>

\* shakaPlayer.js registers no timeupdate listener on the remote player.
ListensRemoteTimeUpdate == variant # SenzaShakaAttach

\* The remote timeupdate listener without its mode check.
RemoteTimeUpdateMirrorsAlways == ListensRemoteTimeUpdate

\* The remote player's timeupdate listener: whether it gets past its mode check
RemoteTimeUpdateMirrors == ListensRemoteTimeUpdate /\ isInRemotePlayback

\* part_005 constructed without an element: the listener's assignment to
\* this.videoElement.currentTime throws.
RemoteTimeUpdateThrows ==
  variant = ShakaTracks /\ isInRemotePlayback /\ videoElement # "video"

\* The remote player reaches position `time` and fires timeupdate.
RemoteTimeUpdate(time) ==
  /\ ~MicrotaskQueued
  /\ remoteUrl # None
  /\ remoteTime' = time
  /\ IF RemoteTimeUpdateThrows
     THEN /\ UNCHANGED <<localTime, seekedPending>>
          /\ Out("remote timeupdate", <<time>>, <<>>, 0, <<>>, <<"TypeError">>)
     ELSE IF RemoteTimeUpdateMirrors
     THEN /\ localTime' = time
          /\ seekedPending' = SeekedAfterAssignment
          /\ Out("remote timeupdate", <<time>>,
                 Repeat(<<"video.setCurrentTime">>, RemoteListenerRuns), 0,
                 IF variant \in FacadeVariants THEN <<Event("timeupdate")>> ELSE <<>>, <<>>)
     ELSE /\ UNCHANGED <<localTime, seekedPending>>
          /\ Out("remote timeupdate", <<time>>, <<>>, 0, <<>>, <<>>)
  /\ UNCHANGED <<variant, observed, trackVars, modeVars, localPaused, remotePaused, localUrl, remoteUrl,
                 loadVars, playVars, drmVars, attachVars>>

\* The application gives the element a position (the shaka subclasses leave
\* seeking to the element).
VideoSeek(time) ==
  /\ variant \in ElementDriven
  /\ localUrl # None
  /\ localTime' = time
  /\ seekedPending' = TRUE
  /\ Out("video seek", <<time>>, <<>>, 0, <<>>, <<>>)
  /\ UNCHANGED <<variant, observed, trackVars, modeVars, remoteTime, localPaused, remotePaused, localUrl,
                 remoteUrl, loadVars, playVars, drmVars, attachVars>>

\* The element's seeked listener of the shaka subclasses: it has no mode check.
\* part_005 registers the method updateCurrentTime itself, which the element
\* calls with `this` the element: this.remotePlayer is undefined there and the
\* assignment throws a TypeError before it writes anything.
SeekedWritesRemote ==
  variant \in {SenzaShakaSync, SenzaShakaAttach} /\ videoListeners

\* part_005's seeked listener, updateCurrentTime called with `this` the element
SeekedThrows == variant = ShakaTracks /\ videoListeners

\* The element fires seeked.
VideoSeeked ==
  /\ ~MicrotaskQueued
  /\ seekedPending
  /\ seekedPending' = FALSE
  /\ IF SeekedWritesRemote
     THEN /\ remoteTime' = localTime
          /\ Out("video seeked", <<>>,
                 Repeat(<<"remote.setCurrentTime">>, ElementListenerRuns), 0, <<>>, <<>>)
     ELSE /\ UNCHANGED remoteTime
          /\ Out("video seeked", <<>>, <<>>, 0,
                 IF variant = UnifiedRemoteFirst THEN <<Event("seeked")>> ELSE <<>>,
                 IF SeekedThrows THEN <<"TypeError">> ELSE <<>>)
  /\ Observe(FALSE)
  /\ UNCHANGED <<variant, trackVars, modeVars, localTime, localPaused, remotePaused, localUrl,
                 remoteUrl, loadVars, playVars, drmVars, attachVars>>

\* ------------------------------------------------------------------- load

\* load(url) starting with the local engine in every variant.
FirstLoadAlwaysLocal == "local"

\* load(url): the engine whose load() is invoked first
FirstLoad == IF variant = UnifiedLocalFirst THEN "local" ELSE "remote"

\* load(url): the step after `engine`'s load() resolved
NextLoad(engine) ==
  IF variant = UnifiedLocalFirst
  THEN (IF engine = "local" THEN "remote" ELSE "resolved")
  ELSE (IF engine = "remote" THEN "local" ELSE "resolved")

\* load(url) with no catch: a rejected engine load rejects load(url).
LoadAfterFailureRethrows(engine) == "rejected"

\* load(url): the step after `engine`'s load() rejected.  UnifiedPlayer wraps both
\* awaits in one try, so its catch ends the function; SenzaShakaPlayer wraps each.
LoadAfterFailure(engine) ==
  IF variant \in UnifiedVariants THEN "resolved" ELSE NextLoad(engine)

\* load(url) leaving the remote player alone whenever it is in remote playback.
SkipsRemoteLoadInRemote(url) ==
  /\ variant \in ElementDriven
  /\ isInRemotePlayback

\* load(url): the shaka subclasses after the first skip the remote load when
\* remote playback already holds url
SkipsRemoteLoad(url) ==
  /\ variant \in ElementDriven
  /\ ~(~isInRemotePlayback \/ remoteUrl # url)

LoadCallName(engine) == IF engine = "remote" THEN "remote.load" ELSE "local.load"

\* load(url) is called; remoteOk and localOk are what the engines will answer
\* (the local engine cannot load without an element, or once destroyed).
LoadCall(url, remoteOk, localOk) ==
  /\ loadPc \in {"idle", "resolved", "rejected"}
  /\ localOk => (videoElement = "video" /\ ~destroyed)
  /\ LET first == IF SkipsRemoteLoad(url) THEN "local" ELSE FirstLoad
     IN /\ loadPc' = first
        /\ loadAttempted' = {first}
        /\ Out("load", <<>>, <<LoadCallName(first)>>, 0, <<>>, <<>>)
  /\ loadUrl' = url
  /\ loadRemoteOk' = remoteOk
  /\ loadLocalOk' = localOk
  /\ loadErrors' = 0
  /\ UNCHANGED <<variant, observed, trackVars, modeVars, engineVars, playVars, drmVars,
                 attachVars, seekedPending>>

\* The awaited engine load settles and load() runs on to its next await or its end.
LoadSettle ==
  /\ loadPc \in {"remote", "local"}
  /\ LET ok == IF loadPc = "remote" THEN loadRemoteOk ELSE loadLocalOk
         to == IF ok THEN NextLoad(loadPc) ELSE LoadAfterFailure(loadPc)
     IN /\ IF loadPc = "remote"
           THEN /\ remoteUrl' = (IF ok THEN loadUrl ELSE None)
                /\ UNCHANGED localUrl
           ELSE /\ localUrl' = (IF ok THEN loadUrl ELSE None)
                /\ UNCHANGED remoteUrl
        /\ loadErrors' = (IF ok \/ to = "rejected" THEN loadErrors ELSE loadErrors + 1)
        /\ loadPc' = to
        /\ IF to \in {"remote", "local"}
           THEN /\ loadAttempted' = loadAttempted \cup {to}
                /\ Out("load continues", <<>>, <<LoadCallName(to)>>, 0, <<>>, <<>>)
           ELSE /\ UNCHANGED loadAttempted
                /\ Out("load continues", <<>>, <<>>, 0, <<>>, <<>>)
  /\ UNCHANGED <<variant, observed, trackVars, modeVars, localTime, remoteTime, localPaused, remotePaused,
                 loadUrl, loadRemoteOk, loadLocalOk, playVars, drmVars,
                 attachVars, seekedPending>>

\* ------------------------------------------------------------------- play

\* play(): whether it also awaits the remote player's play(false)
PlayAwaitsRemote == variant = SenzaShaka

\* play() is called; `allowed`: the browser lets the element play.
PlayCall(allowed) ==
  /\ variant \in FacadeVariants
  /\ playPc \in {"idle", "resolved", "rejected"}
  /\ playPc' = "local"
  /\ playOk' = allowed
  /\ localPaused' = (IF allowed THEN FALSE ELSE localPaused)
  /\ Out("play", <<>>, <<"video.play">>, 0, <<>>, <<>>)
  /\ UNCHANGED <<variant, observed, trackVars, modeVars, localTime, remoteTime, remotePaused, localUrl,
                 remoteUrl, loadVars, pausePc, drmVars,
                 attachVars, seekedPending>>

\* play() going on to the remote player whatever became of the local promise.
PlayRemoteAlways(resolved) == <<"remote.play">>

\* play(): what follows `await this.videoElement.play()`; a rejection leaves
\* the function before remotePlayer.play(false)
PlayRemoteAfterLocal(resolved) ==
  IF resolved THEN <<"remote.play">> ELSE <<>>

\* The element's play promise: resolved once playback has started, rejected
\* when playing was refused or the element was paused meanwhile.
LocalPlayResolves == playOk /\ ~localPaused

\* The element's play promise settles and play() runs on.
PlayLocalSettle ==
  /\ playPc = "local"
  /\ LocalPlayResolves => localUrl # None
  /\ remotePaused' = (IF HasCall(PlayRemoteAfterLocal(LocalPlayResolves), "remote.play")
                      THEN FALSE ELSE remotePaused)
  /\ playPc' = (IF ~LocalPlayResolves THEN "rejected"
                ELSE IF PlayAwaitsRemote THEN "remote" ELSE "resolved")
  /\ Out("play continues", <<>>, PlayRemoteAfterLocal(LocalPlayResolves), 0, <<>>, <<>>)
  /\ UNCHANGED <<variant, observed, trackVars, modeVars, localTime, remoteTime, localPaused, localUrl,
                 remoteUrl, loadVars, playOk, pausePc, drmVars,
                 attachVars, seekedPending>>

\* SenzaShakaPlayer: the awaited remotePlayer.play(false) settles.
PlayRemoteSettle(ok) ==
  /\ playPc = "remote"
  /\ playPc' = (IF ok THEN "resolved" ELSE "rejected")
  /\ Out("play completes", <<>>, <<>>, 0, <<>>, <<>>)
  /\ UNCHANGED <<variant, observed, trackVars, modeVars, engineVars, loadVars, playOk, pausePc, drmVars,
                 attachVars, seekedPending>>

\* ----------------------------------------------------- forwarded events

ShakaSubclasses == {SenzaShaka, SenzaShakaSync, SenzaShakaAttach}

\* The detail payloads of the engines' error events
ErrorDetails == { [errorCode |-> 3016, message |-> "decode"],
                  [errorCode |-> 1002, message |-> "network"] }
ErrorEvents == { [type |-> "error", detail |-> d] : d \in ErrorDetails }

\* The error listeners building a detail of their own from the code alone.
ErrorEventRewrapped(event) ==
  CustomEvent("error", [detail |-> [errorCode |-> event.detail.errorCode, message |-> ""]])

\* The error listeners: new CustomEvent("error", event)
ErrorEvent(event) == CustomEvent("error", event)

\* Only shakaPlayer.js ever removes its listeners from the remote player.
RemoteListenersRun == variant # SenzaShakaAttach \/ remoteListeners

\* The ended/error listeners dispatching without looking at this.videoElement.
RemoteEventDispatchesAlways == TRUE

\* shakaPlayer.js: `if (this.videoElement)` around the dispatch; the other
\* variants dispatch unconditionally, which throws in part_005 constructed
\* without an element (the only class besides shakaPlayer.js that can be
\* without one)
RemoteEventDispatches ==
  variant \notin {SenzaShakaAttach, ShakaTracks} \/ videoElement = "video"

\* The ended/error listeners of part_005 reaching this.videoElement.dispatchEvent
\* with no element
RemoteEventThrows == variant = ShakaTracks /\ videoElement # "video"

\* UnifiedPlayer and the first SenzaShakaPlayer dispatch on themselves, the
\* later shaka subclasses onto the element.
DispatchCalls ==
  IF variant \in FacadeVariants THEN <<>> ELSE <<"video.dispatchEvent">>

\* The ended listener dispatching its event without asking for the foreground.
RemoteEndedCallsNone == <<>>

\* The remote player's ended listener: what it does before it dispatches
RemoteEndedCalls == <<"lifecycle.moveToForeground">>

\* The remote player fires ended.
RemoteEnded ==
  /\ ~MicrotaskQueued
  /\ remoteUrl # None
  /\ IF RemoteListenersRun
     THEN Out("remote ended", <<>>,
              Repeat(RemoteEndedCalls
                       \o (IF RemoteEventDispatches THEN DispatchCalls ELSE <<>>),
                     RemoteListenerRuns),
              0,
              IF RemoteEventDispatches
              THEN Repeat(<<Event("ended")>>, RemoteListenerRuns) ELSE <<>>,
              IF RemoteEventThrows THEN <<"TypeError">> ELSE <<>>)
     ELSE Out("remote ended", <<>>, <<>>, 0, <<>>, <<>>)
  /\ Observe(FALSE)
  /\ UNCHANGED <<variant, trackVars, modeVars, engineVars, loadVars, playVars, drmVars,
                 attachVars, seekedPending>>

\* The remote player fires error.
RemoteError(event) ==
  /\ ~MicrotaskQueued
  /\ IF RemoteListenersRun /\ RemoteEventDispatches
     THEN Out("remote error", <<event>>, Repeat(DispatchCalls, RemoteListenerRuns), 0,
              Repeat(<<ErrorEvent(event)>>, RemoteListenerRuns), <<>>)
     ELSE Out("remote error", <<event>>, <<>>, 0, <<>>,
              IF RemoteEventThrows THEN <<"TypeError">> ELSE <<>>)
  /\ UNCHANGED <<variant, observed, trackVars, modeVars, engineVars, loadVars, playVars, drmVars,
                 attachVars, seekedPending>>

\* The local engine fires error: UnifiedPlayer passes it on; in the shaka
\* subclasses the engine is the coordinator and the event is already its own.
LocalError(event) ==
  /\ ~MicrotaskQueued
  /\ ~destroyed
  /\ Out("local error", <<event>>, <<>>, 0,
         IF variant \in UnifiedVariants THEN <<ErrorEvent(event)>> ELSE <<>>, <<>>)
  /\ UNCHANGED <<variant, observed, trackVars, modeVars, engineVars, loadVars, playVars, drmVars,
                 attachVars, seekedPending>>

\* Where the local ended listener sits: part_003 puts it on the element;
\* unifiedPlayer.js puts it on the shaka player, which has no ended event of
\* its own, so the element's ended never reaches it.  The shaka subclasses
\* register none: their callers listen on the element itself.
ListensLocalEnded == variant = UnifiedRemoteFirst

\* The element plays to its end and fires ended.
LocalEnded ==
  /\ ~MicrotaskQueued
  /\ localUrl # None
  /\ ~localPaused
  /\ Out("video ended", <<>>, <<>>, 0,
         IF ListensLocalEnded THEN <<Event("ended")>> ELSE <<>>, <<>>)
  /\ UNCHANGED <<variant, observed, trackVars, modeVars, engineVars, loadVars, playVars, drmVars,
                 attachVars, seekedPending>>

\* The element's events part_003 passes on as they are, besides seeked
PassthroughTypes == {"canplay", "waiting", "seeking", "loadedmetadata"}

\* The passthrough listeners all dispatching canplay.
PassthroughAsCanplay(type) == Event("canplay")

\* part_003: this.dispatchEvent(new Event(type)) in the listener of `type`
PassthroughEvent(type) == Event(type)

\* The element fires canplay, waiting, seeking or loadedmetadata.
VideoPassthrough(type) ==
  /\ ~MicrotaskQueued
  /\ localUrl # None
  /\ Out("video passthrough", <<type>>, <<>>, 0,
         IF variant = UnifiedRemoteFirst THEN <<PassthroughEvent(type)>> ELSE <<>>, <<>>)
  /\ UNCHANGED <<variant, observed, trackVars, modeVars, engineVars, loadVars, playVars, drmVars,
                 attachVars, seekedPending>>

\* The play and pause listeners the later shaka subclasses put on the element
ForwardsPlayPause ==
  variant \in ElementDriven /\ videoListeners

\* Whether the element's listeners run with the coordinator in reach: arrow
\* functions do; part_005 registers remotePlayer.play and remotePlayer.pause
\* themselves, which the element then calls with `this` the element.
ListenersBound == variant # ShakaTracks

\* What a play or pause listener achieves.  A bound one calls the remote
\* player; an unbound one does so only if the remote player's method does
\* without `this` (works), and throws otherwise.
ListenerCalls(call, works) ==
  IF ForwardsPlayPause /\ (ListenersBound \/ works)
  THEN Repeat(<<call>>, ElementListenerRuns) ELSE <<>>

\* An unbound play or pause listener whose method needs `this`: it throws.
ListenerThrows(works) == ForwardsPlayPause /\ ~ListenersBound /\ ~works

\* The application starts the element, which fires play.
VideoPlay ==
  /\ variant \in ElementDriven
  /\ localPaused
  /\ localPaused' = FALSE
  /\ \E works \in BOOLEAN :
       /\ ListenersBound => works
       /\ remotePaused' = (IF HasCall(ListenerCalls("remote.play", works), "remote.play")
                           THEN FALSE ELSE remotePaused)
       /\ Out("video play", <<>>, ListenerCalls("remote.play", works), 0, <<>>,
              IF ListenerThrows(works) THEN <<"TypeError">> ELSE <<>>)
  /\ UNCHANGED <<variant, observed, trackVars, modeVars, localTime, remoteTime, localUrl, remoteUrl,
                 loadVars, playVars, drmVars, attachVars, seekedPending>>

\* The application pauses the element, which fires pause.
VideoPause ==
  /\ variant \in ElementDriven
  /\ ~localPaused
  /\ localPaused' = TRUE
  /\ \E works \in BOOLEAN :
       /\ ListenersBound => works
       /\ remotePaused' = (IF HasCall(ListenerCalls("remote.pause", works), "remote.pause")
                           THEN TRUE ELSE remotePaused)
       /\ Out("video pause", <<>>, ListenerCalls("remote.pause", works), 0, <<>>,
              IF ListenerThrows(works) THEN <<"TypeError">> ELSE <<>>)
  /\ UNCHANGED <<variant, observed, trackVars, modeVars, localTime, remoteTime, localUrl, remoteUrl,
                 loadVars, playVars, drmVars, attachVars, seekedPending>>

\* --------------------------------------------------------------- teardown

\* part_005 attach(videoElement) with an element already held: it calls
\* removeMediaEventListeners() as a bare name, which is not defined.
AttachThrows == variant = ShakaTracks /\ videoElement # "undefined"

\* attach(): whether it awaits shaka's attach before it touches the element
\* (shakaPlayer.js); part_005 calls super.attach without awaiting it
AttachAwaits == variant = SenzaShakaAttach

\* attach(): what it does once shaka's attach is under way or done.  The remote
\* player is attached and the element gets the play, pause and seeked
\* listeners (adding a listener that is already there changes nothing).
AttachEffects ==
  /\ videoElement' = "video"
  /\ remoteAttached' = TRUE
  /\ videoListeners' = TRUE

\* attach(videoElement) is called.  shakaPlayer.js yields at `await
\* super.attach(...)` with this.videoElement, the remote player and the
\* element's listeners as they were.
Attach ==
  /\ variant \in {SenzaShakaAttach, ShakaTracks}
  /\ ~destroyed
  /\ elementPc = "idle"
  /\ IF AttachThrows
     THEN /\ UNCHANGED <<videoElement, remoteAttached, videoListeners, elementPc>>
          /\ Out("attach", <<>>, <<"super.attach">>, 0, <<>>, <<"ReferenceError">>)
     ELSE IF AttachAwaits
     THEN /\ UNCHANGED <<videoElement, remoteAttached, videoListeners>>
          /\ elementPc' = "attach"
          /\ Out("attach", <<>>, <<"super.attach">>, 0, <<>>, <<>>)
     ELSE /\ AttachEffects
          /\ UNCHANGED elementPc
          /\ Out("attach", <<>>, <<"super.attach", "remote.attach", "video.addEventListener">>,
                 0, <<>>, <<"resolved">>)
  /\ UNCHANGED <<variant, observed, trackVars, modeVars, engineVars, loadVars, playVars, drmVars,
                 remoteListeners, destroyed, seekedPending, registrations>>

\* shakaPlayer.js: shaka's attach has resolved and attach() runs on.
AttachContinue ==
  /\ elementPc = "attach"
  /\ elementPc' = "idle"
  /\ AttachEffects
  /\ Out("attach continues", <<>>, <<"remote.attach", "video.addEventListener">>,
         0, <<>>, <<"resolved">>)
  /\ UNCHANGED <<variant, observed, trackVars, modeVars, engineVars, loadVars, playVars, drmVars,
                 remoteListeners, destroyed, seekedPending, registrations>>

\* detach() is called, with no load in flight: shaka's detach, which unloads
\* the local media, is awaited.
Detach ==
  /\ variant = SenzaShakaAttach
  /\ ~destroyed
  /\ elementPc = "idle"
  /\ loadPc \notin {"remote", "local"}
  /\ elementPc' = "detach"
  /\ localUrl' = None
  /\ localPaused' = TRUE
  /\ Out("detach", <<>>, <<"super.detach">>, 0, <<>>, <<>>)
  /\ UNCHANGED <<variant, observed, trackVars, modeVars, localTime, remoteTime, remotePaused,
                 remoteUrl, loadVars, playVars, drmVars, videoElement, videoListeners,
                 remoteListeners, remoteAttached, destroyed, seekedPending, registrations>>

\* detach() after `await super.detach()`: how it goes on.
\* removeVideoElementEventListeners reads this.videoElement, which is undefined
\* before any attach and null after a detach; remotePlayer.unload() is awaited
\* only when the remote player holds an asset.
DetachOutcome ==
  IF videoElement # "video" THEN "TypeError"
  ELSE IF remoteUrl # None THEN "unload"
  ELSE "resolved"

\* detach(): the last two statements, which detach the remote player and
\* forget the element
DetachFinish ==
  /\ remoteAttached' = FALSE
  /\ videoElement' = "null"

\* shaka's detach has resolved and detach() runs on: it throws, or removes the
\* element's listeners and then either awaits remotePlayer.unload() or
\* finishes.
DetachContinue ==
  /\ elementPc = "detach"
  /\ CASE DetachOutcome = "TypeError" ->
            /\ elementPc' = "idle"
            /\ UNCHANGED <<videoListeners, remoteAttached, videoElement>>
            /\ Out("detach continues", <<>>, <<>>, 0, <<>>, <<"TypeError">>)
       [] DetachOutcome = "unload" ->
            /\ elementPc' = "unload"
            /\ videoListeners' = FALSE
            /\ UNCHANGED <<remoteAttached, videoElement>>
            /\ Out("detach continues", <<>>, <<"video.removeEventListener", "remote.unload">>,
                   0, <<>>, <<>>)
       [] OTHER ->
            /\ elementPc' = "idle"
            /\ videoListeners' = FALSE
            /\ DetachFinish
            /\ Out("detach continues", <<>>, <<"video.removeEventListener", "remote.detach">>,
                   0, <<>>, <<"resolved">>)
  /\ UNCHANGED <<variant, observed, trackVars, modeVars, engineVars, loadVars, playVars, drmVars,
                 remoteListeners, destroyed, seekedPending, registrations>>

\* remotePlayer.unload() settles and detach() runs on; unloadOk: it resolved,
\* and the remote player holds no asset any more.
DetachUnloadSettle(unloadOk) ==
  /\ elementPc = "unload"
  /\ elementPc' = "idle"
  /\ IF unloadOk
     THEN /\ remoteUrl' = None
          /\ remotePaused' = TRUE
          /\ DetachFinish
          /\ Out("detach completes", <<>>, <<"remote.detach">>, 0, <<>>, <<"resolved">>)
     ELSE /\ UNCHANGED <<remoteUrl, remotePaused, remoteAttached, videoElement>>
          /\ Out("detach completes", <<>>, <<>>, 0, <<>>, <<"unload rejected">>)
  /\ UNCHANGED <<variant, observed, trackVars, modeVars, localTime, remoteTime, localPaused,
                 localUrl, loadVars, playVars, drmVars, videoListeners, remoteListeners,
                 destroyed, seekedPending, registrations>>

\* destroy() of a shaka subclass, called with no load in flight.  shakaPlayer.js
\* first removes its listeners from the remote player; the classes of
\* senzaShakaPlayer.js inherit shaka's destroy, which knows nothing of the
\* listeners they registered.  Whether shaka's destroy goes through the
\* overridden detach() depends on the shaka release (baseDetaches); when it
\* does, destroy() returns with detach() awaiting shaka's detach.
Destroy(baseDetaches) ==
  /\ variant \in ShakaSubclasses
  /\ ~destroyed
  /\ elementPc = "idle"
  /\ loadPc \notin {"remote", "local"}
  /\ destroyed' = TRUE
  /\ localUrl' = None
  /\ localPaused' = TRUE
  /\ remoteListeners' = (IF variant = SenzaShakaAttach THEN FALSE ELSE remoteListeners)
  /\ IF variant = SenzaShakaAttach /\ baseDetaches
     THEN /\ elementPc' = "detach"
          /\ Out("destroy", <<>>,
                 <<"remote.removeEventListener", "super.destroy", "super.detach">>,
                 0, <<>>, <<>>)
     ELSE /\ ~baseDetaches
          /\ UNCHANGED elementPc
          /\ Out("destroy", <<>>,
                 IF variant = SenzaShakaAttach
                 THEN <<"remote.removeEventListener", "super.destroy">>
                 ELSE <<"super.destroy">>,
                 0, <<>>, <<"resolved">>)
  /\ UNCHANGED <<variant, observed, trackVars, modeVars, localTime, remoteTime, remotePaused,
                 remoteUrl, loadVars, playVars, drmVars, videoElement, videoListeners,
                 remoteAttached, seekedPending, registrations>>

\* The listener methods of shakaPlayer.js and part_005 are public, and an
\* application may call them on a coordinator it has not destroyed, between
\* one attach() or detach() and the next.

\* addVideoElementEventListeners() of shakaPlayer.js and addMediaEventListeners()
\* of part_005: the element gets the play, pause and seeked listeners; without
\* an element this.videoElement.addEventListener throws.
addVideoElementEventListeners ==
  /\ variant \in {SenzaShakaAttach, ShakaTracks}
  /\ ~destroyed
  /\ elementPc = "idle"
  /\ IF videoElement = "video"
     THEN /\ videoListeners' = TRUE
          /\ Out("addVideoElementEventListeners", <<>>, <<"video.addEventListener">>,
                 0, <<>>, <<>>)
     ELSE /\ UNCHANGED videoListeners
          /\ Out("addVideoElementEventListeners", <<>>, <<>>, 0, <<>>, <<"TypeError">>)
  /\ UNCHANGED <<variant, observed, trackVars, modeVars, engineVars, loadVars, playVars, drmVars,
                 videoElement, remoteListeners, remoteAttached, destroyed, elementPc,
                 seekedPending, registrations>>

\* removeVideoElementEventListeners() of shakaPlayer.js and
\* removeMediaEventListeners() of part_005, called as methods
removeVideoElementEventListeners ==
  /\ variant \in {SenzaShakaAttach, ShakaTracks}
  /\ ~destroyed
  /\ elementPc = "idle"
  /\ IF videoElement = "video"
     THEN /\ videoListeners' = FALSE
          /\ Out("removeVideoElementEventListeners", <<>>, <<"video.removeEventListener">>,
                 0, <<>>, <<>>)
     ELSE /\ UNCHANGED videoListeners
          /\ Out("removeVideoElementEventListeners", <<>>, <<>>, 0, <<>>, <<"TypeError">>)
  /\ UNCHANGED <<variant, observed, trackVars, modeVars, engineVars, loadVars, playVars, drmVars,
                 videoElement, remoteListeners, remoteAttached, destroyed, elementPc,
                 seekedPending, registrations>>

\* addRemotePlayerEventListeners() of shakaPlayer.js
addRemotePlayerEventListeners ==
  /\ variant = SenzaShakaAttach
  /\ ~destroyed
  /\ elementPc = "idle"
  /\ remoteListeners' = TRUE
  /\ Out("addRemotePlayerEventListeners", <<>>, <<"remote.addEventListener">>, 0, <<>>, <<>>)
  /\ UNCHANGED <<variant, observed, trackVars, modeVars, engineVars, loadVars, playVars, drmVars,
                 videoElement, videoListeners, remoteAttached, destroyed, elementPc,
                 seekedPending, registrations>>

\* removeRemotePlayerEventListeners() of shakaPlayer.js
removeRemotePlayerEventListeners ==
  /\ variant = SenzaShakaAttach
  /\ ~destroyed
  /\ elementPc = "idle"
  /\ remoteListeners' = FALSE
  /\ Out("removeRemotePlayerEventListeners", <<>>, <<"remote.removeEventListener">>,
         0, <<>>, <<>>)
  /\ UNCHANGED <<variant, observed, trackVars, modeVars, engineVars, loadVars, playVars, drmVars,
                 videoElement, videoListeners, remoteAttached, destroyed, elementPc,
                 seekedPending, registrations>>

\* addEventListeners() of the second SenzaShakaPlayer, which its constructor
\* calls and an application may call again: the remote player gets another
\* ended, error and timeupdate listener, the player another error listener,
\* the element another play, pause and seeked listener.
addEventListeners ==
  /\ variant = SenzaShakaSync
  /\ ~destroyed
  /\ registrations < MaxRegistrations
  /\ registrations' = registrations + 1
  /\ Out("addEventListeners", <<>>,
         <<"remote.addEventListener", "player.addEventListener", "video.addEventListener">>,
         0, <<>>, <<>>)
  /\ UNCHANGED <<variant, observed, trackVars, modeVars, engineVars, loadVars, playVars, drmVars,
                 videoElement, videoListeners, remoteListeners, remoteAttached, destroyed,
                 elementPc, seekedPending>>

\* addPlayerEventListeners() of part_005, likewise: the remote player gets
\* another ended, error and timeupdate listener, the player another error
\* listener.
addPlayerEventListeners ==
  /\ variant = ShakaTracks
  /\ ~destroyed
  /\ registrations < MaxRegistrations
  /\ registrations' = registrations + 1
  /\ Out("addPlayerEventListeners", <<>>,
         <<"remote.addEventListener", "player.addEventListener">>, 0, <<>>, <<>>)
  /\ UNCHANGED <<variant, observed, trackVars, modeVars, engineVars, loadVars, playVars, drmVars,
                 videoElement, videoListeners, remoteListeners, remoteAttached, destroyed,
                 elementPc, seekedPending>>

\* updateCurrentTime() of part_005 called as a method: the remote player is
\* given the element's position; without an element the read throws.
updateCurrentTime ==
  /\ variant = ShakaTracks
  /\ ~destroyed
  /\ IF videoElement = "video"
     THEN /\ remoteTime' = localTime
          /\ Out("updateCurrentTime", <<>>, <<"remote.setCurrentTime">>, 0, <<>>, <<>>)
     ELSE /\ UNCHANGED remoteTime
          /\ Out("updateCurrentTime", <<>>, <<>>, 0, <<>>, <<"TypeError">>)
  /\ UNCHANGED <<variant, observed, trackVars, modeVars, localTime, localPaused, remotePaused,
                 localUrl, remoteUrl, loadVars, playVars, drmVars, attachVars, seekedPending>>

\* ----------------------------------------------------------------- tracks

Languages == {"en", "fr"}

\* Track lists the remote player may report
AudioTrackLists ==
  { <<>>,
    <<[id |-> 1, lang |-> "en"]>>,
    <<[id |-> 1, lang |-> "fr"], [id |-> 2, lang |-> "en"], [id |-> 3, lang |-> "en"]>> }

\* Nothing selected on either engine, no remote tracks known, no tracksupdate
\* listener registered
NoTracks ==
  /\ remoteAudioTracks = <<>>
  /\ localAudioLanguage = None /\ remoteAudioTrack = 0
  /\ localTextLanguage = None /\ remoteTextTrack = None
  /\ tracksListener = FALSE

\* The look-up taking the first track of the list whatever its language.
FindFirstTrack(tracks, language) == IF Len(tracks) > 0 THEN 1 ELSE 0

\* audioTracks.find(t => t.lang == language): the index of the first track of
\* the language, 0 when there is none
FindTrack(tracks, language) ==
  IF \E i \in 1..Len(tracks) : tracks[i].lang = language
  THEN CHOOSE i \in 1..Len(tracks) :
         /\ tracks[i].lang = language
         /\ \A j \in 1..(i - 1) : tracks[j].lang # language
  ELSE 0

\* The classes an application selects tracks on: part_005 overrides
\* selectAudioLanguage and selectTextLanguage to select on the remote player
\* as well; shakaPlayer.js, which the application of part_002 imports,
\* inherits shaka's methods, which know the local engine only.
TrackVariants == {ShakaTracks, SenzaShakaAttach}
SelectsRemoteTracks == variant = ShakaTracks

\* selectAudioLanguage(language): whether it reaches remotePlayer.selectAudioTrack
SelectAudioRemote(language) == FindTrack(remoteAudioTracks, language) # 0

\* selectAudioLanguage(language), with the remote player reporting `tracks`:
\* the calls it makes
SelectAudioCalls(tracks, language) ==
  IF SelectsRemoteTracks
  THEN <<"super.selectAudioLanguage", "remote.getAudioTracks">>
       \o (IF FindTrack(tracks, language) # 0 THEN <<"remote.selectAudioTrack">> ELSE <<>>)
  ELSE <<"super.selectAudioLanguage">>

\* selectAudioLanguage(language), with the remote player reporting `tracks`:
\* the track id the remote player has selected afterwards
SelectAudioTrackId(tracks, language) ==
  IF SelectsRemoteTracks /\ FindTrack(tracks, language) # 0
  THEN tracks[FindTrack(tracks, language)].id
  ELSE remoteAudioTrack

\* selectTextLanguage(language): the calls it makes
SelectTextCalls ==
  IF SelectsRemoteTracks
  THEN <<"super.selectTextLanguage", "remote.selectTextTrack">>
  ELSE <<"super.selectTextLanguage">>

\* selectTextLanguage(language): what the remote player's selectTextTrack was
\* last given afterwards
SelectTextTrack(language) == IF SelectsRemoteTracks THEN language ELSE remoteTextTrack

\* selectAudioLanguage(language): the local engine is told the language, the
\* remote player the id of its first track of that language, if it has one.
SelectAudioLanguage(language) ==
  /\ variant \in TrackVariants
  /\ localAudioLanguage' = language
  /\ remoteAudioTrack' = SelectAudioTrackId(remoteAudioTracks, language)
  /\ Out("selectAudioLanguage", <<language>>, SelectAudioCalls(remoteAudioTracks, language),
         0, <<>>, <<>>)
  /\ UNCHANGED <<variant, observed, modeVars, engineVars, loadVars, playVars, drmVars,
                 attachVars, seekedPending, remoteAudioTracks, localTextLanguage, remoteTextTrack,
                 tracksListener>>

\* selectTextLanguage(language): both engines are given the language.
SelectTextLanguage(language) ==
  /\ variant \in TrackVariants
  /\ localTextLanguage' = language
  /\ remoteTextTrack' = SelectTextTrack(language)
  /\ Out("selectTextLanguage", <<language>>, SelectTextCalls, 0, <<>>, <<>>)
  /\ UNCHANGED <<variant, observed, modeVars, engineVars, loadVars, playVars, drmVars,
                 attachVars, seekedPending, remoteAudioTracks, localAudioLanguage, remoteAudioTrack,
                 tracksListener>>

\* The application of part_002, which drives shakaPlayer.js: its window load
\* listener constructs the player, attaches the element, loads and starts the
\* element; once `await video.play()` has resolved it reads the languages,
\* shows the text track, puts its tracksupdate listener on the remote player
\* and reports uiReady().  The application of part_005 (src/index.js)
\* registers no tracksupdate listener.
WindowLoadContinue ==
  /\ variant = SenzaShakaAttach
  /\ ~tracksListener
  /\ ~destroyed
  /\ videoElement = "video" /\ elementPc = "idle"
  /\ loadPc = "resolved"
  /\ ~localPaused
  /\ tracksListener' = TRUE
  /\ Out("window load continues", <<>>,
         <<"super.getAudioLanguages", "super.getTextLanguages",
           "super.setTextTrackVisibility", "remote.addEventListener", "uiReady">>,
         0, <<>>, <<>>)
  /\ UNCHANGED <<variant, observed, modeVars, engineVars, loadVars, playVars, drmVars,
                 attachVars, seekedPending, remoteAudioTracks, localAudioLanguage,
                 remoteAudioTrack, localTextLanguage, remoteTextTrack>>

\* The remote player reports the tracks of its stream and fires tracksupdate,
\* on a player that has not been destroyed.  No class of the repository
\* listens to it.  The listener the application of part_002 registered reads
\* the remote audio and the remote text tracks for its log and selects the
\* application's audio and text language (audioLangs[selectedAudioIndex],
\* textLangs[selectedTextIndex]) again, through the player's
\* selectAudioLanguage and selectTextLanguage.
RemoteTracksUpdate(tracks, audio, text) ==
  /\ variant \in TrackVariants
  /\ ~destroyed
  /\ remoteAudioTracks' = tracks
  /\ IF tracksListener
     THEN /\ localAudioLanguage' = audio
          /\ remoteAudioTrack' = SelectAudioTrackId(tracks, audio)
          /\ localTextLanguage' = text
          /\ remoteTextTrack' = SelectTextTrack(text)
          /\ Out("remote tracksupdate", <<>>,
                 <<"remote.getAudioTracks", "remote.getTextTracks">>
                   \o SelectAudioCalls(tracks, audio) \o SelectTextCalls,
                 0, <<>>, <<>>)
     ELSE /\ UNCHANGED <<localAudioLanguage, remoteAudioTrack, localTextLanguage,
                         remoteTextTrack>>
          /\ Out("remote tracksupdate", <<>>, <<>>, 0, <<>>, <<>>)
  /\ UNCHANGED <<variant, observed, modeVars, engineVars, loadVars, playVars, drmVars,
                 attachVars, seekedPending, tracksListener>>

\* -------------------------------------------------------------------- DRM

DrmVariants == {UnifiedRemoteFirst, UnifiedLocalFirstDrm, SenzaShakaAttach}
Servers == {"https://drm.example/a", "https://drm.example/b"}
ProxyServer == "https://proxy.example/drm"
Statuses == {200, 403}
ResponseBodies == {<<>>, <<69>>, <<69, 82>>}

\* License requests the remote player sends: the raw bytes, and the base64 text
\* of them that event.detail.licenseRequest holds, as character codes.
LicensePayloads ==
  { [raw |-> <<77>>,          b64 |-> <<84, 81, 61, 61>>],
    [raw |-> <<77, 97, 110>>, b64 |-> <<84, 87, 70, 117>>],
    [raw |-> <<251, 255>>,    b64 |-> <<43, 47, 56, 61>>] }

\* JavaScript values the exchange hands around
ArrayBuffer(bytes) == [kind |-> "ArrayBuffer", v |-> bytes]
String(codes)      == [kind |-> "string", v |-> codes]
Undefined          == [kind |-> "undefined", v |-> <<>>]
Truthy(value)      == value.kind # "undefined"

\* No request posted, no response written, by the handler that ran last.  A
\* write records the response as the server sent it (rawStatus, rawData) and
\* as the caller's response filter left it (status, data).
NoPost  == [ev |-> 0, raw |-> <<>>, requests |-> <<>>]
NoWrite == [ev |-> 0, listener |-> 0, code |-> 0, body |-> Undefined,
            status |-> 0, data |-> <<>>, rawStatus |-> 0, rawData |-> <<>>]

\* window.atob: the six bits a base64 character stands for
B64Value(c) ==
  CASE c \in 65..90  -> c - 65
    [] c \in 97..122 -> c - 71
    [] c \in 48..57  -> c + 4
    [] c = 43        -> 62
    [] OTHER         -> 63

\* window.atob: the text without its padding
B64Unpadded(s) ==
  IF Len(s) > 0 /\ Len(s) % 4 = 0 /\ s[Len(s)] = 61
  THEN IF s[Len(s) - 1] = 61 THEN SubSeq(s, 1, Len(s) - 2) ELSE SubSeq(s, 1, Len(s) - 1)
  ELSE s

RECURSIVE B64Groups(_)
\* window.atob: four characters give three bytes; a last group of three gives
\* two and of two gives one, the bits left over being dropped
B64Groups(s) ==
  IF Len(s) >= 4
  THEN LET n == B64Value(s[1]) * 262144 + B64Value(s[2]) * 4096
                + B64Value(s[3]) * 64 + B64Value(s[4])
       IN <<n \div 65536, (n \div 256) % 256, n % 256>> \o B64Groups(SubSeq(s, 5, Len(s)))
  ELSE IF Len(s) = 3
  THEN LET n == (B64Value(s[1]) * 4096 + B64Value(s[2]) * 64 + B64Value(s[3])) \div 4
       IN <<n \div 256, n % 256>>
  ELSE IF Len(s) = 2
  THEN <<(B64Value(s[1]) * 64 + B64Value(s[2])) \div 16>>
  ELSE <<>>

atob(s) == B64Groups(B64Unpadded(s))

\* The listener's decoding of event.detail.licenseRequest into the bytes to post
licenseRequestBytes(b64) == atob(b64)

\* String.fromCharCode(new Uint8Array(data)): the typed array is one argument,
\* converted to a number through its text ("" is 0, "69" is 69, "69,82" is NaN,
\* and NaN gives code 0)
FromCharCodeOfArray(bytes) ==
  IF Len(bytes) = 1 THEN <<bytes[1]>> ELSE <<0>>

\* getLicenseFromServer: the request it builds
LicenseRequestObject(server, body) ==
  [uri |-> server, method |-> "POST", body |-> ArrayBuffer(body),
   headers |-> {"Content-Type"}]

\* shakaPlayer.js: the request its license-request listener hands to shaka's
\* networking engine, with a body, the server and the method and no headers
NetworkingEngineRequest(server, body) ==
  [uri |-> server, method |-> "POST", body |-> ArrayBuffer(body),
   headers |-> "undefined"]

\* The caller's request filter, which changes the request in place:
\* videoManager.js adds an Authorization header; "rewrite" stands for a filter
\* that sends the request to a proxy and reformats the body (a one-byte
\* envelope in front of the license request).
ApplyRequestFilter(filter, request) ==
  CASE filter = "authorization" ->
         [request EXCEPT !.headers = request.headers \cup {"Authorization"}]
    [] filter = "rewrite" ->
         [request EXCEPT !.uri = ProxyServer,
                         !.body = ArrayBuffer(<<123>> \o request.body.v)]
    [] OTHER -> request

RequestFilters == {None, "authorization", "rewrite"}

\* The request a listener sends.  getLicenseFromServer of part_004 takes the
\* URI from the filtered request and writes the method, body and headers out
\* again from its own arguments; that of part_003 hands fetch the filtered
\* request; the listener of shakaPlayer.js builds its own request.
SentRequest(server, body, filter) ==
  LET request  == LicenseRequestObject(server, body)
      filtered == ApplyRequestFilter(filter, request)
  IN IF variant = SenzaShakaAttach
     THEN NetworkingEngineRequest(server, body)
     ELSE IF variant = UnifiedLocalFirstDrm
     THEN [request EXCEPT !.uri = filtered.uri]
     ELSE filtered

\* The caller's response filter, which changes the response in place: "unwrap"
\* stands for a filter that takes the license out of a one-byte envelope and
\* reports an empty envelope as a refusal.
ApplyResponseFilter(filter, response) ==
  IF filter = "unwrap"
  THEN IF response.data.v = <<>>
       THEN [response EXCEPT !.status = 403]
       ELSE [response EXCEPT !.data = ArrayBuffer(Tail(response.data.v))]
  ELSE response

ResponseFilters == {None, "unwrap"}

\* getLicenseFromServer: the response object it builds from fetch's, after the
\* caller's response filter has run on it
FilteredResponse(filter, status, data) ==
  ApplyResponseFilter(filter, [status |-> status, data |-> ArrayBuffer(data)])

\* getLicenseFromServer: the responseBody it returns for a response
LicenseResponseBody(status, data) ==
  IF status # 200
  THEN (IF Truthy(data) THEN String(FromCharCodeOfArray(data.v)) ELSE Undefined)
  ELSE data

\* shakaPlayer.js: the responseBody its license-request listener writes
NetworkingEngineResponseBody(status, data) ==
  IF status # 200
  THEN (IF data.kind # "undefined" THEN data ELSE String(FromCharCodeOfArray(<<>>)))
  ELSE data

\* The body writeLicenseResponse gets, as the variant in use computes it
WrittenBody(status, data) ==
  IF variant = SenzaShakaAttach
  THEN NetworkingEngineResponseBody(status, data)
  ELSE LicenseResponseBody(status, data)

\* configureDrm(server, requestFilter, responseFilter): one more
\* license-request listener, closing over the three arguments
configureDrm(server, requestFilter, responseFilter) ==
  /\ variant # SenzaShakaAttach
  /\ Len(drmListeners) < MaxConfigure
  /\ drmListeners' = Append(drmListeners, [server |-> server, requestFilter |-> requestFilter,
                                          responseFilter |-> responseFilter])
  /\ Out("configureDrm", <<>>, <<"local.configure", "remote.addEventListener">>, 0, <<>>, <<>>)
  /\ lastPost' = NoPost
  /\ lastWrite' = NoWrite
  /\ UNCHANGED <<variant, observed, trackVars, modeVars, engineVars, loadVars, playVars,
                 pending, fired, posts, writes,
                 attachVars, seekedPending>>

\* The requests the registered listeners send for a payload, in listener order
ListenerRequests(b64) ==
  [i \in 1..Len(drmListeners) |->
     SentRequest(drmListeners[i].server, licenseRequestBytes(b64),
                 drmListeners[i].requestFilter)]

\* The remote player fires license-request: every registered listener decodes
\* the payload and sends its request, then awaits the answer.
LicenseRequest(payload) ==
  /\ fired < MaxEvents
  /\ LET ev == fired + 1
         reqs == ListenerRequests(payload.b64)
     IN /\ fired' = ev
        /\ posts' = Append(posts, Len(reqs))
        /\ writes' = Append(writes, 0)
        /\ pending' = pending \cup {[ev |-> ev, listener |-> i] : i \in 1..Len(reqs)}
        /\ lastPost' = [ev |-> ev, raw |-> payload.raw, requests |-> reqs]
        /\ lastWrite' = NoWrite
        /\ Out("license-request", <<>>, [i \in 1..Len(reqs) |-> "fetch"], 0, <<>>, <<>>)
  /\ UNCHANGED <<variant, observed, trackVars, modeVars, engineVars, loadVars, playVars, drmListeners,
                 attachVars, seekedPending>>

\* The license server answers an exchange; its listener writes the answer back.
LicenseResponse(x, status, data) ==
  /\ x \in pending
  /\ pending' = pending \ {x}
  /\ writes' = [writes EXCEPT ![x.ev] = @ + 1]
  /\ LET response == FilteredResponse(drmListeners[x.listener].responseFilter, status, data)
     IN lastWrite' = [ev |-> x.ev, listener |-> x.listener, code |-> response.status,
                      body |-> WrittenBody(response.status, response.data),
                      status |-> response.status, data |-> response.data.v,
                      rawStatus |-> status, rawData |-> data]
  /\ lastPost' = NoPost
  /\ Out("license-request continues", <<>>, <<"writeLicenseResponse">>, 0, <<>>, <<>>)
  /\ UNCHANGED <<variant, observed, trackVars, modeVars, engineVars, loadVars, playVars,
                 drmListeners, fired, posts,
                 attachVars, seekedPending>>

\* The HTTP request of an exchange fails: the listener's promise rejects.
LicenseFetchFails(x) ==
  /\ x \in pending
  /\ pending' = pending \ {x}
  /\ lastPost' = NoPost
  /\ lastWrite' = NoWrite
  /\ Out("license-request continues", <<>>, <<>>, 0, <<>>, <<>>)
  /\ UNCHANGED <<variant, observed, trackVars, modeVars, engineVars, loadVars, playVars,
                 drmListeners, fired, posts, writes,
                 attachVars, seekedPending>>

\* -------------------------------------------------------- lifecycle signal

\* The state the lifecycle signal enters next on its way to the requested one:
\* the transitional state first, the state itself after it
TowardState(request) ==
  IF request = "foreground"
  THEN (IF lifecycleState \in {"background", "inTransitionToBackground"}
        THEN "inTransitionToForeground" ELSE "foreground")
  ELSE (IF lifecycleState \in {"foreground", "inTransitionToForeground"}
        THEN "inTransitionToBackground" ELSE "background")

\* The lifecycle signal carries a request it was given one state further and
\* delivers the state-change event.
LifecycleHonours(request) ==
  /\ request \in observed.requests
  /\ LifecycleStateChange(TowardState(request))

\* The HTTP request of some exchange settles, with a response or with a failure.
LicenseSettles ==
  \E x \in pending :
    \/ \E status \in Statuses, data \in ResponseBodies : LicenseResponse(x, status, data)
    \/ LicenseFetchFails(x)

\* ----------------------------------------------------------------- claims

InBackground == lifecycleState \in {"background", "inTransitionToBackground"}

\* C1: once a lifecycle state-change event has been delivered, isInRemotePlayback
\* (UnifiedPlayer's flag, SenzaShakaPlayer's getter) is true exactly when the
\* most recently delivered lifecycle state is background or
\* inTransitionToBackground.
C1_RemoteIffBackground ==
  delivered => (isInRemotePlayback <=> InBackground)

C1_Witness ==
  /\ variant \in UnifiedVariants
  /\ lastOp = "onstatechange"
  /\ lifecycleState = "background"
  /\ flag

\* C2: a read of currentTime returns the remote player's position in remote
\* playback and the video element's position otherwise; with both engines
\* loaded by a resolved load, a read in local mode never returns a remote
\* position that differs from the local one.
C2_CurrentTimeReadsAuthoritative ==
  lastOp = "get currentTime" =>
    /\ isInRemotePlayback => ret = <<remoteTime>>
    /\ ~isInRemotePlayback => ret = <<localTime>>
    /\ (~isInRemotePlayback /\ loadPc = "resolved" /\ localUrl # None /\ remoteUrl # None
        /\ remoteTime # localTime) => ret # <<remoteTime>>

C2_Witness ==
  /\ lastOp = "get currentTime"
  /\ ~isInRemotePlayback
  /\ loadPc = "resolved" /\ localUrl = loadUrl /\ remoteUrl = loadUrl
  /\ remoteTime # localTime
  /\ ret = <<localTime>>

\* C3: pause() called in remote playback calls neither engine's pause, leaves
\* both engines' play state and position as they were, and warns exactly once.
C3_PauseInRemoteIsNoOp ==
  [][(lastOp' = "pause" /\ isInRemotePlayback) =>
       /\ calls' = <<>>
       /\ warnings' = 1
       /\ UNCHANGED <<localPaused, remotePaused, localTime, remoteTime>>]_vars

C3_Witness ==
  /\ lastOp = "pause"
  /\ isInRemotePlayback
  /\ warnings = 1
  /\ ~localPaused /\ ~remotePaused

\* C4: an assignment of currentTime in local mode sets the video element's and
\* the remote player's position to the assigned value; in remote playback it
\* writes neither position and warns.
C4_SetCurrentTimeOnlyInLocal ==
  [][lastOp' = "set currentTime" =>
       IF isInRemotePlayback
       THEN /\ UNCHANGED <<localTime, remoteTime>>
            /\ calls' = <<>>
            /\ warnings' = 1
       ELSE /\ <<localTime'>> = arg' /\ <<remoteTime'>> = arg'
            /\ calls' = <<"video.setCurrentTime", "remote.setCurrentTime">>
            /\ warnings' = 0]_vars

C4_Witness ==
  /\ lastOp = "set currentTime"
  /\ isInRemotePlayback
  /\ warnings = 1
  /\ arg # <<localTime>> /\ arg # <<remoteTime>>

\* C5 as claimed: every moveToRemotePlayback() sets the remote player's position
\* to the local position and only then calls lifecycle.moveToBackground().
C5_Original ==
  lastOp = "moveToRemotePlayback" =>
    /\ calls = <<"remote.setCurrentTime", "lifecycle.moveToBackground">>
    /\ remoteTime = localTime

\* C5 as amended: the second SenzaShakaPlayer of senzaShakaPlayer.js sets the
\* remote position to the local one and then, with nothing in between, calls
\* lifecycle.moveToBackground(); the other variants only call
\* lifecycle.moveToBackground().
C5_SyncThenBackground ==
  lastOp = "moveToRemotePlayback" =>
    IF variant = SenzaShakaSync
    THEN /\ calls = <<"remote.setCurrentTime", "lifecycle.moveToBackground">>
         /\ remoteTime = localTime
    ELSE calls = <<"lifecycle.moveToBackground">>

C5_Witness ==
  /\ variant = SenzaShakaSync
  /\ lastOp = "moveToRemotePlayback"
  /\ localTime # 0
  /\ remoteTime = localTime

\* C6 as claimed: with configureDrm called once, without filters, each
\* license-request event is posted exactly once, to the configured server, with
\* the decoded bytes of its payload as body, and is answered by exactly one
\* writeLicenseResponse carrying the status and the body of the response.
C6_OneExchangePerRequest ==
  (variant = UnifiedRemoteFirst /\ Len(drmListeners) = 1
   /\ drmListeners[1].requestFilter = None
   /\ drmListeners[1].responseFilter = None) =>
    /\ lastPost.ev # 0 =>
         /\ posts[lastPost.ev] = 1
         /\ lastPost.requests[1].uri = drmListeners[1].server
         /\ lastPost.requests[1].method = "POST"
         /\ lastPost.requests[1].body = ArrayBuffer(lastPost.raw)
    /\ lastWrite.ev # 0 =>
         /\ writes[lastWrite.ev] = 1
         /\ lastWrite.code = lastWrite.status
         /\ lastWrite.body.v = lastWrite.data

\* C7 as claimed: a response with a status other than 200 is written back with
\* that status and with the response body, or with undefined when the response
\* has no body.
C7_FailureWrittenBack ==
  (lastWrite.ev # 0 /\ lastWrite.status # 200) =>
    /\ lastWrite.code = lastWrite.status
    /\ IF lastWrite.data = <<>>
       THEN lastWrite.body = Undefined \/ lastWrite.body.v = <<>>
       ELSE lastWrite.body.v = lastWrite.data

LoadFailures ==
  {e \in loadAttempted : IF e = "remote" THEN ~loadRemoteOk ELSE ~loadLocalOk}

\* C8 as claimed: when load(url) has resolved, both the remote player's and the
\* local engine's load have been invoked, whichever of them failed.
C8_BothLoadsAttempted ==
  (variant \in FacadeVariants /\ loadPc = "resolved") =>
    loadAttempted = {"remote", "local"}

\* C9: load(url) never rejects, whatever the two engine loads answer; each
\* engine load that failed is logged, and that is all the caller can see.
C9_LoadNeverRejects ==
  /\ loadPc # "rejected"
  /\ loadPc = "resolved" => loadErrors = Cardinality(LoadFailures)

C9_Witness ==
  /\ loadPc = "resolved"
  /\ ~loadRemoteOk /\ ~loadLocalOk
  /\ loadAttempted = {"remote", "local"}
  /\ loadErrors = 2

\* C10 as claimed: in local mode, a load(url) whose remote load throws while the
\* local load would succeed resolves with an error logged and with the local
\* engine holding url, so that a following play() can start local playback.
C10_LocalLoadedAfterRemoteFailure ==
  (variant \in FacadeVariants /\ ~isInRemotePlayback
   /\ loadPc = "resolved" /\ ~loadRemoteOk /\ loadLocalOk) =>
    /\ loadErrors >= 1
    /\ localUrl = loadUrl

\* C11 as claimed: load(url) invokes the remote load first and the local load
\* only once the remote load has settled, and never starts the remote load
\* after the local one.
C11_Original ==
  variant \in FacadeVariants =>
    /\ HasCall(calls, "local.load") =>
         (lastOp = "load continues" /\ "remote" \in loadAttempted)
    /\ HasCall(calls, "remote.load") => "local" \notin loadAttempted

\* C11 as amended: the UnifiedPlayer of part_003 and the SenzaShakaPlayer
\* classes invoke the remote load first and the local load only when the remote
\* load has settled (in UnifiedPlayer: resolved), the second SenzaShakaPlayer
\* invoking the local load alone when it skips the remote one; the UnifiedPlayer
\* of unifiedPlayer.js invokes the local load first and the remote load once
\* the local load has resolved.
C11_LoadOrderByVariant ==
  IF variant = UnifiedLocalFirst
  THEN /\ HasCall(calls, "local.load") =>
            (lastOp = "load" /\ loadPc = "local" /\ loadAttempted = {"local"})
       /\ HasCall(calls, "remote.load") =>
            (lastOp = "load continues" /\ loadPc = "remote" /\ loadLocalOk
             /\ loadAttempted = {"local", "remote"})
  ELSE /\ HasCall(calls, "remote.load") =>
            (lastOp = "load" /\ loadPc = "remote" /\ loadAttempted = {"remote"})
       /\ HasCall(calls, "local.load") =>
            \/ /\ lastOp = "load continues" /\ loadPc = "local"
               /\ loadAttempted = {"remote", "local"}
               /\ variant = UnifiedRemoteFirst => loadRemoteOk
            \/ /\ lastOp = "load" /\ loadPc = "local" /\ loadAttempted = {"local"}
               /\ variant = SenzaShakaSync /\ isInRemotePlayback /\ remoteUrl = loadUrl

C11_Witness ==
  /\ variant = SenzaShaka
  /\ lastOp = "load continues"
  /\ calls = <<"local.load">>
  /\ ~loadRemoteOk
  /\ loadAttempted = {"remote", "local"}

\* C12: play() calls the element's play() and nothing else; when that promise
\* resolves it calls the remote player's play(false), in remote playback as in
\* local mode; when it rejects play() rejects and the remote player is not
\* called.
C12_PlayLocalThenRemote ==
  variant \in FacadeVariants =>
    /\ lastOp = "play" => (calls = <<"video.play">> /\ playPc = "local")
    /\ lastOp = "play continues" =>
         IF LocalPlayResolves
         THEN calls = <<"remote.play">> /\ playPc \in {"remote", "resolved"} /\ ~remotePaused
         ELSE calls = <<>> /\ playPc = "rejected"
    /\ HasCall(calls, "remote.play") => lastOp = "play continues"

C12_Witness ==
  /\ variant \in FacadeVariants
  /\ lastOp = "play continues"
  /\ isInRemotePlayback
  /\ calls = <<"remote.play">>

\* C13 as claimed: whenever isInRemotePlayback turns true, the handler that
\* turns it has first called the element's pause.
C13_Original ==
  [][(variant \in UnifiedVariants /\ ~flag /\ flag') =>
       calls' = <<"video.pause", "isInRemotePlayback=true">>]_vars

\* C13 as amended: the handler of a `background` event pauses the element and
\* then sets isInRemotePlayback; the handler of an `inTransitionToBackground`
\* event sets isInRemotePlayback without pausing, so that on the path through
\* the transitional state the element is paused only when `background` arrives.
C13_PauseOnBackgroundEvent ==
  (variant \in UnifiedVariants /\ lastOp = "onstatechange") =>
    /\ lifecycleState = "background" =>
         (calls = <<"video.pause", "isInRemotePlayback=true">> /\ localPaused /\ flag)
    /\ lifecycleState = "inTransitionToBackground" =>
         (calls = <<"isInRemotePlayback=true">> /\ flag)
    /\ lifecycleState \in {"foreground", "inTransitionToForeground"} =>
         (calls = <<"isInRemotePlayback=false">> /\ ~flag)

C13_Witness ==
  /\ variant \in UnifiedVariants
  /\ lastOp = "onstatechange"
  /\ lifecycleState = "inTransitionToBackground"
  /\ flag
  /\ ~localPaused

\* C14: a remote timeupdate is mirrored into the element and re-emitted only in
\* remote playback, a local timeupdate is mirrored into the remote player and
\* re-emitted only in local mode (UnifiedPlayer does both); a timeupdate of the
\* engine that is not authoritative writes nothing and emits nothing.
C14_MirroringGatedByMode ==
  [][/\ lastOp' = "remote timeupdate" =>
          IF isInRemotePlayback
          THEN variant \in UnifiedVariants =>
                 /\ localTime' = remoteTime' /\ <<remoteTime'>> = arg'
                 /\ events' = <<Event("timeupdate")>>
          ELSE UNCHANGED localTime /\ calls' = <<>> /\ events' = <<>>
     /\ lastOp' = "video timeupdate" =>
          IF ~isInRemotePlayback
          THEN variant \in UnifiedVariants =>
                 /\ remoteTime' = localTime' /\ <<localTime'>> = arg'
                 /\ events' = <<Event("timeupdate")>>
          ELSE UNCHANGED remoteTime /\ calls' = <<>> /\ events' = <<>>]_vars

C14_Witness ==
  /\ variant \in UnifiedVariants
  /\ lastOp = "remote timeupdate"
  /\ ~isInRemotePlayback
  /\ remoteTime # localTime
  /\ events = <<>>

\* C15 as claimed: in local mode a timeupdate of the element at position t sets
\* the remote player's position to t and dispatches exactly one timeupdate
\* event that carries nothing but its type.
C15_LocalTimeUpdateMirrored ==
  (variant \in FacadeVariants /\ lastOp = "video timeupdate" /\ ~isInRemotePlayback) =>
    /\ <<localTime>> = arg
    /\ remoteTime = localTime
    /\ events = <<Event("timeupdate")>>

MirroringHandlers == {"remote timeupdate", "video timeupdate", "video seeked"}

\* C16 as claimed: in remote playback no timeupdate or seeked listener writes
\* the remote player's position, the seeked the element fires after the remote
\* timeupdate listener gave it a position included; in local mode none writes
\* the element's position.
C16_NeverFedBack ==
  lastOp \in MirroringHandlers =>
    /\ isInRemotePlayback => ~HasCall(calls, "remote.setCurrentTime")
    /\ ~isInRemotePlayback => ~HasCall(calls, "video.setCurrentTime")

ExternalEvents ==
  {"remote ended", "remote error", "remote timeupdate",
   "video play", "video pause", "video seeked", "video timeupdate"}

\* C17 as claimed: once destroy() has run to its end, no event of the remote
\* player or of the element makes the coordinator call the remote player or
\* the lifecycle, or dispatch anything.
C17_DestroyUnregistersAll ==
  (destroyed /\ elementPc = "idle" /\ lastOp \in ExternalEvents) =>
    (calls = <<>> /\ events = <<>>)

\* C18: a detach() of shakaPlayer.js that resolves leaves the element without
\* the coordinator's listeners and the remote player detached and without an
\* asset; from then on the element's play, pause and seeked events reach no
\* remote player call, and a remote ended or error event dispatches nothing.
C18_DetachUnregisters ==
  variant = SenzaShakaAttach =>
    /\ (lastOp \in {"detach continues", "detach completes"} /\ ret = <<"resolved">>) =>
         /\ videoElement = "null" /\ ~videoListeners /\ ~remoteAttached /\ remoteUrl = None
         /\ calls[Len(calls)] = "remote.detach"
         /\ elementPc = "idle"
    /\ (videoElement = "null" /\ lastOp \in {"video play", "video pause", "video seeked"}) =>
         calls = <<>>
    /\ (videoElement = "null" /\ lastOp \in {"remote ended", "remote error"}) =>
         (events = <<>> /\ ~HasCall(calls, "video.dispatchEvent"))

C18_Witness ==
  /\ variant = SenzaShakaAttach
  /\ videoElement = "null"
  /\ ~destroyed
  /\ lastOp = "remote ended"
  /\ calls = <<"lifecycle.moveToForeground">>
  /\ events = <<>>

\* C19 as claimed: moveToLocalPlayback() calls the element's play() and then,
\* without awaiting it, lifecycle.moveToForeground().
C19_MoveToLocalStartsPlayback ==
  lastOp = "moveToLocalPlayback" =>
    calls = <<"video.play", "lifecycle.moveToForeground">>

\* C20: UnifiedPlayer answers each error event of the remote player or of the
\* local engine with exactly one error event of its own whose detail is the
\* detail of the event it got, in local mode and in remote playback.
C20_ErrorsPassedThrough ==
  (variant \in UnifiedVariants /\ lastOp \in {"remote error", "local error"}) =>
    /\ Len(events) = 1
    /\ events[1].type = "error"
    /\ events[1].detail = arg[1].detail
    /\ events[1].detail \in ErrorDetails

C20_Witness ==
  /\ variant \in UnifiedVariants
  /\ lastOp = "remote error"
  /\ isInRemotePlayback
  /\ Len(events) = 1
  /\ events[1].detail = arg[1].detail

\* C21 as claimed: for every listener configureDrm registered with a request
\* filter, the HTTP request sent for a license-request event is the request as
\* that filter changed it (URI, headers and body); for every listener registered
\* with a response filter, writeLicenseResponse gets the status and the body of
\* the response as that filter changed it.
C21_FiltersApplied ==
  /\ lastPost.ev # 0 =>
       \A i \in 1..Len(drmListeners) :
         drmListeners[i].requestFilter # None =>
           lastPost.requests[i] =
             ApplyRequestFilter(drmListeners[i].requestFilter,
                                LicenseRequestObject(drmListeners[i].server, lastPost.raw))
  /\ (lastWrite.ev # 0 /\ drmListeners[lastWrite.listener].responseFilter # None) =>
       LET response == ApplyResponseFilter(drmListeners[lastWrite.listener].responseFilter,
                          [status |-> lastWrite.rawStatus,
                           data |-> ArrayBuffer(lastWrite.rawData)])
       IN /\ lastWrite.code = response.status
          /\ lastWrite.body.v = response.data.v

\* C22 as claimed, of part_005: every selectAudioLanguage(language) and every
\* selectTextLanguage(language) issues a selection call to the local engine and
\* one to the remote player, for that language, whatever tracks the remote
\* player reports.
C22_Original ==
  variant = ShakaTracks =>
  /\ lastOp = "selectAudioLanguage" =>
       /\ HasCall(calls, "super.selectAudioLanguage")
       /\ localAudioLanguage = arg[1]
       /\ HasCall(calls, "remote.selectAudioTrack")
       /\ (\E i \in 1..Len(remoteAudioTracks) : remoteAudioTracks[i].lang = arg[1]) =>
            \E i \in 1..Len(remoteAudioTracks) :
               /\ remoteAudioTracks[i].id = remoteAudioTrack
               /\ remoteAudioTracks[i].lang = arg[1]
  /\ lastOp = "selectTextLanguage" =>
       /\ HasCall(calls, "super.selectTextLanguage")
       /\ HasCall(calls, "remote.selectTextTrack")
       /\ localTextLanguage = arg[1]
       /\ remoteTextTrack = arg[1]

\* C22 as amended, of part_005: selectAudioLanguage(language) always tells the
\* local engine the language, and tells the remote player to select a track
\* exactly when the remote player reports a track of that language, naming the
\* first such track; with no such track (or no tracks yet) it makes no remote
\* selection and the remote selection stays what it was before the call.
\* selectTextLanguage(language) always gives the language to both engines.
\* Neither changes the tracks the remote player reports.
C22_SelectionByLanguage ==
  [][variant = ShakaTracks =>
       /\ lastOp' = "selectAudioLanguage" =>
            /\ localAudioLanguage' = arg'[1]
            /\ calls'[1] = "super.selectAudioLanguage"
            /\ remoteAudioTracks' = remoteAudioTracks
            /\ HasCall(calls', "remote.selectAudioTrack") <=>
                 \E i \in 1..Len(remoteAudioTracks) : remoteAudioTracks[i].lang = arg'[1]
            /\ HasCall(calls', "remote.selectAudioTrack") =>
                 \E i \in 1..Len(remoteAudioTracks) :
                    /\ remoteAudioTracks[i].id = remoteAudioTrack'
                    /\ remoteAudioTracks[i].lang = arg'[1]
                    /\ \A j \in 1..(i - 1) : remoteAudioTracks[j].lang # arg'[1]
            /\ ~HasCall(calls', "remote.selectAudioTrack") =>
                 remoteAudioTrack' = remoteAudioTrack
            /\ UNCHANGED <<localTextLanguage, remoteTextTrack>>
       /\ lastOp' = "selectTextLanguage" =>
            /\ calls' = <<"super.selectTextLanguage", "remote.selectTextTrack">>
            /\ localTextLanguage' = arg'[1]
            /\ remoteTextTrack' = arg'[1]
            /\ UNCHANGED <<remoteAudioTracks, localAudioLanguage, remoteAudioTrack>>]_vars

C22_Witness ==
  /\ variant = ShakaTracks
  /\ lastOp = "selectAudioLanguage"
  /\ arg = <<"en">>
  /\ Len(remoteAudioTracks) = 3
  /\ localAudioLanguage = "en"
  /\ remoteAudioTrack = 2

\* C23: pause() called in local mode calls the element's pause and then the
\* remote player's pause, once each, and leaves both paused: in one go in
\* UnifiedPlayer; in the first SenzaShakaPlayer the remote player's pause
\* follows in the continuation of the call, still in local mode.
C23_PauseInLocalPausesBoth ==
  /\ (lastOp = "pause" /\ ~isInRemotePlayback) =>
       /\ warnings = 0
       /\ localPaused
       /\ IF pausePc = "local"
          THEN calls = <<"video.pause">>
          ELSE calls = <<"video.pause", "remote.pause">> /\ remotePaused
  /\ lastOp = "pause continues" =>
       /\ calls = <<"remote.pause">>
       /\ remotePaused
       /\ ~isInRemotePlayback
       /\ pausePc = "idle"

C23_Witness ==
  /\ lastOp = "pause continues"
  /\ ~isInRemotePlayback
  /\ playPc = "resolved"
  /\ localPaused /\ remotePaused

\* C24: the paused property is false whenever isInRemotePlayback is true,
\* whatever the engines' play states, and is the element's paused flag
\* whenever isInRemotePlayback is false.
C24_PausedByMode ==
  lastOp = "get paused" =>
    /\ isInRemotePlayback => ret = <<FALSE>>
    /\ ~isInRemotePlayback => ret = <<localPaused>>

C24_Witness ==
  /\ variant \in UnifiedVariants
  /\ lastOp = "get paused"
  /\ lifecycleState = "background" /\ flag
  /\ localPaused /\ ~remotePaused
  /\ ret = <<FALSE>>

\* C25 as claimed: with an element attached, each play event of the element
\* causes exactly one remotePlayer.play(), each pause event exactly one
\* remotePlayer.pause(), and each seeked event exactly one assignment of the
\* element's position to the remote player's, also after attach() was called
\* on a coordinator constructed with the element.
C25_MediaEventsForwardedOnce ==
  (videoElement = "video" /\ videoListeners) =>
    /\ lastOp = "video play" => calls = <<"remote.play">> /\ ~remotePaused
    /\ lastOp = "video pause" => calls = <<"remote.pause">> /\ remotePaused
    /\ lastOp = "video seeked" =>
         calls = <<"remote.setCurrentTime">> /\ remoteTime = localTime

\* C26: skip(n) in local mode leaves the element's and the remote player's
\* position at the element's position before the call plus n; in remote
\* playback it leaves both positions as they were.
C26_SkipByAmount ==
  [][lastOp' = "skip" =>
       IF isInRemotePlayback
       THEN UNCHANGED <<localTime, remoteTime>>
       ELSE /\ localTime' = localTime + arg'[1]
            /\ remoteTime' = localTime + arg'[1]]_vars

C26_Witness ==
  /\ lastOp = "skip"
  /\ arg = <<-1>>
  /\ ~isInRemotePlayback
  /\ localTime = 0 /\ remoteTime = 0
  /\ calls = <<"video.setCurrentTime", "remote.setCurrentTime">>

\* C28: the handler of a lifecycle event with state foreground or
\* inTransitionToForeground sets isInRemotePlayback to false and does nothing
\* else: it makes no engine call, and both engines' play states, positions and
\* assets stay as they were, so an element paused on entering background
\* stays paused.
C28_ForegroundOnlyMarksLocal ==
  [][(lastOp' = "onstatechange"
      /\ lifecycleState' \in {"foreground", "inTransitionToForeground"}) =>
       /\ ~isInRemotePlayback'
       /\ calls' = (IF variant \in UnifiedVariants
                    THEN <<"isInRemotePlayback=false">> ELSE <<>>)
       /\ events' = <<>>
       /\ UNCHANGED engineVars]_vars

C28_Witness ==
  /\ variant \in UnifiedVariants
  /\ lastOp = "onstatechange"
  /\ lifecycleState = "foreground"
  /\ ~flag
  /\ localPaused /\ ~remotePaused
  /\ playPc = "resolved"

\* The type of the engine event whose handling ran last, none for a method
SourceEventType ==
  CASE lastOp \in {"remote ended", "video ended"} -> "ended"
    [] lastOp \in {"remote error", "local error"} -> "error"
    [] lastOp \in {"remote timeupdate", "video timeupdate"} -> "timeupdate"
    [] lastOp = "video seeked" -> "seeked"
    [] lastOp = "video passthrough" -> arg[1]
    [] OTHER -> None

\* C27: a unified event is dispatched only in the handling of an engine event
\* of the same type, at most one per engine event in the coordinators that
\* dispatch on themselves (UnifiedPlayer, the first SenzaShakaPlayer), whose
\* listeners are registered once, by the constructor; load, play, pause, an
\* assignment of currentTime, moveToLocalPlayback and moveToRemotePlayback
\* dispatch none.  The second SenzaShakaPlayer, which dispatches onto the
\* element, does so once per set of listeners it has registered.
C27_EventsOnlyFromSourceEvents ==
  /\ variant \in FacadeVariants => Len(events) <= 1
  /\ Len(events) <= registrations
  /\ \A i \in 1..Len(events) : events[i].type = SourceEventType

C27_Witness ==
  /\ variant = UnifiedRemoteFirst
  /\ lastOp = "video passthrough"
  /\ arg = <<"waiting">>
  /\ events = <<Event("waiting")>>

\* C29: in the shaka subclasses whose load looks at the remote player's asset,
\* load(url) leaves out the remote load exactly when isInRemotePlayback is true
\* and the remote player already holds url, and starts with the remote load
\* otherwise; the local load is attempted in every case, and after a load that
\* resolved without logging a failure both engines hold url.
C29_RemoteLoadSkippedOnlyWhenHeld ==
  /\ lastOp = "load" =>
       calls = (IF isInRemotePlayback /\ remoteUrl = loadUrl
                THEN <<"local.load">> ELSE <<"remote.load">>)
  /\ loadPc = "resolved" => "local" \in loadAttempted
  /\ (loadPc = "resolved" /\ loadErrors = 0) =>
       (localUrl = loadUrl /\ remoteUrl = loadUrl)

C29_Witness ==
  /\ loadPc = "resolved"
  /\ loadAttempted = {"local"}
  /\ loadErrors = 0
  /\ loadUrl = "b.mpd"
  /\ localUrl = "b.mpd" /\ remoteUrl = "b.mpd"

\* C30 as claimed: every remote ended event causes one
\* lifecycle.moveToForeground() and then one ended event to the caller, on the
\* coordinator in UnifiedPlayer (and in the first SenzaShakaPlayer, which
\* dispatches on itself) and on the element in the later shaka subclasses; an
\* ended event of the local element causes one unified ended (in the shaka
\* subclasses the element's own, the coordinator adding none) and no lifecycle
\* request.
C30_EndedForwarded ==
  /\ lastOp = "remote ended" =>
       /\ calls = <<"lifecycle.moveToForeground">>
                    \o (IF variant \in FacadeVariants THEN <<>> ELSE <<"video.dispatchEvent">>)
       /\ events = <<Event("ended")>>
  /\ lastOp = "video ended" =>
       /\ calls = <<>>
       /\ events = (IF variant \in UnifiedVariants THEN <<Event("ended")>> ELSE <<>>)

\* C31: in UnifiedPlayer, once the remote player has fired ended in remote
\* playback, and with the lifecycle signal carrying out the moveToForeground
\* request of the ended listener, isInRemotePlayback becomes false.
C31_EndedLeavesRemote ==
  (lastOp = "remote ended" /\ isInRemotePlayback) ~> ~isInRemotePlayback

C31_Witness ==
  /\ variant \in UnifiedVariants
  /\ lastOp = "remote ended"
  /\ isInRemotePlayback
  /\ lifecycleState = "background"
  /\ "foreground" \in observed.requests

\* C32: in UnifiedPlayer only the lifecycle state-change handler changes
\* isInRemotePlayback: no method and no engine event handler does;
\* moveToLocalPlayback and moveToRemotePlayback leave it as it is and make
\* their request to the lifecycle signal; and a state-change event with a
\* state other than the four known ones leaves it as it is.
C32_ModeChangedOnlyByLifecycle ==
  [][/\ lastOp' # "onstatechange" => isInRemotePlayback' = isInRemotePlayback
     /\ lastOp' = "moveToLocalPlayback" =>
          LifecycleRequests(calls') = {"foreground"}
     /\ lastOp' = "moveToRemotePlayback" =>
          /\ calls' = <<"lifecycle.moveToBackground">>
          /\ LifecycleRequests(calls') = {"background"}
     /\ (lastOp' = "onstatechange" /\ lifecycleState' \notin UiStates) =>
          isInRemotePlayback' = isInRemotePlayback]_vars

C32_Witness ==
  /\ lastOp = "onstatechange"
  /\ lifecycleState = "unknown"
  /\ isInRemotePlayback
  /\ ~localPaused
  /\ Len(drmListeners) > 0

\* C33: with the lifecycle signal in the foreground at construction,
\* UnifiedPlayer's isInRemotePlayback field and SenzaShakaPlayer's getter over
\* lifecycle.state have the same value at construction and after every
\* state-change event.
C33_FlagEqualsGetter ==
  flag = isInRemotePlaybackGetter(lifecycleState)

C33_Witness ==
  /\ delivered
  /\ lifecycleState = "inTransitionToBackground"
  /\ flag
  /\ isInRemotePlaybackGetter(lifecycleState)

\* The handler that ran last answered one of two license-request events whose
\* exchanges were under way together: the first after the second had arrived,
\* or the second with the first still unanswered.
AnsweredConcurrently ==
  /\ fired = 2
  /\ lastWrite.ev # 0
  /\ lastWrite.ev = 1 \/ \E x \in pending : x.ev = 1

\* C34 as claimed: with one license-request listener and no filters, of two
\* exchanges under way together, completing in either order, each event is
\* answered once, with the status and the body of the response to its own
\* request.
C34_OwnResponseWritten ==
  (variant \in {UnifiedRemoteFirst, SenzaShakaAttach} /\ Len(drmListeners) = 1
   /\ drmListeners[1].requestFilter = None /\ drmListeners[1].responseFilter = None
   /\ AnsweredConcurrently) =>
    /\ writes[lastWrite.ev] = 1
    /\ lastWrite.code = lastWrite.rawStatus
    /\ lastWrite.body.v = lastWrite.rawData

\* C35 as claimed: whatever the number of configureDrm calls, at most one HTTP
\* POST is sent for a license-request event and writeLicenseResponse is called
\* at most once on it.
C35_AtMostOneExchangePerEvent ==
  \A ev \in 1..fired : posts[ev] <= 1 /\ writes[ev] <= 1

\* C36 as claimed: in UnifiedPlayer, whenever the most recently delivered
\* lifecycle state is background the local engine is paused.
C36_Original ==
  (variant \in UnifiedVariants /\ delivered /\ lifecycleState = "background") =>
    localPaused

\* C36 as amended: in UnifiedPlayer the handler of a state-change event with
\* state background leaves the local engine paused, and while background is
\* the most recently delivered state a paused local engine stays paused
\* through every handler and method other than play() and
\* moveToLocalPlayback(), which start it whatever the mode.
C36_PausedUntilPlayed ==
  [][/\ (variant \in UnifiedVariants /\ lastOp' = "onstatechange"
         /\ lifecycleState' = "background") => localPaused'
     /\ (delivered /\ lifecycleState = "background" /\ localPaused
         /\ lastOp' \notin {"play", "moveToLocalPlayback"}) => localPaused']_vars

C36_Witness ==
  /\ variant \in UnifiedVariants
  /\ lastOp = "onstatechange"
  /\ lifecycleState = "background"
  /\ HasCall(calls, "video.pause")
  /\ playPc = "resolved"
  /\ localPaused /\ ~remotePaused

\* C37: in UnifiedPlayer, at every step that takes isInRemotePlayback from
\* false to true, the position the coordinator last wrote to the remote player
\* is the local position at the most recent timeupdate of the element or
\* assignment of currentTime made in local mode.
C37_RemoteHoldsResumePosition ==
  [][(variant \in UnifiedVariants /\ ~isInRemotePlayback /\ isInRemotePlayback') =>
       observed'.written = observed'.synced]_vars

C37_Witness ==
  /\ variant \in UnifiedVariants
  /\ lastOp = "onstatechange"
  /\ lifecycleState = "inTransitionToBackground"
  /\ isInRemotePlayback
  /\ observed.synced = <<MaxTime>>
  /\ observed.written = <<MaxTime>>
  /\ localTime = MaxTime
  /\ remoteTime # MaxTime

\* C38 as claimed: with every HTTP request settling, by a response of any
\* status or by a network failure, writeLicenseResponse is eventually called on
\* every license-request event a request was sent for.
C38_EveryRequestAnswered ==
  \A ev \in 1..MaxEvents :
    (ev <= fired /\ posts[ev] > 0) ~> (ev <= fired /\ writes[ev] > 0)

\* C39 as claimed: detach() called on a SenzaShakaPlayer that holds no video
\* element (never attached, or detached before) completes without throwing,
\* detaches the remote player and leaves videoElement null.
C39_DetachSafeUnattached ==
  [][(~destroyed /\ lastOp' = "detach continues" /\ videoElement # "video") =>
       /\ ret' = <<"resolved">>
       /\ HasCall(calls', "remote.detach")
       /\ videoElement' = "null"]_vars

\* ---------------------------------------------------------- specifications

Init ==
  /\ variant \in PlaybackVariants
  /\ lifecycleState \in UiStates
  /\ delivered = FALSE
  /\ flag = FALSE
  /\ localTime = 0 /\ remoteTime = 0
  /\ localPaused = TRUE /\ remotePaused = TRUE
  /\ localUrl = None /\ remoteUrl = None
  /\ loadPc = "idle" /\ loadUrl = None /\ loadRemoteOk = TRUE /\ loadLocalOk = TRUE
  /\ loadAttempted = {} /\ loadErrors = 0
  /\ playPc = "idle" /\ playOk = TRUE /\ pausePc = "idle"
  /\ lastOp = "constructor" /\ arg = <<>> /\ calls = <<>> /\ warnings = 0 /\ events = <<>> /\ ret = <<>>
  /\ drmListeners = <<>> /\ pending = {} /\ fired = 0
  /\ posts = <<>> /\ writes = <<>>
  /\ lastPost = NoPost /\ lastWrite = NoWrite
  /\ videoElement = "video" /\ videoListeners = TRUE /\ remoteListeners = TRUE
  /\ remoteAttached = (variant # UnifiedLocalFirst)
  /\ destroyed = FALSE /\ elementPc = "idle" /\ registrations = 1
  /\ seekedPending = FALSE
  /\ NoTracks
  /\ observed = NotObserved

Next ==
  \/ \E s \in UiStates : LifecycleStateChange(s)
  \/ GetCurrentTime
  \/ \E t \in Times : SetCurrentTime(t)
  \/ Pause
  \/ PauseContinue
  \/ MoveToRemotePlayback
  \/ \E allowed \in BOOLEAN : MoveToLocalPlayback(allowed)
  \/ \E t \in Times : LocalTimeUpdate(t)
  \/ \E t \in Times : RemoteTimeUpdate(t)
  \/ \E url \in Urls, remoteOk \in BOOLEAN, localOk \in BOOLEAN :
       LoadCall(url, remoteOk, localOk)
  \/ LoadSettle
  \/ \E allowed \in BOOLEAN : PlayCall(allowed)
  \/ PlayLocalSettle
  \/ \E ok \in BOOLEAN : PlayRemoteSettle(ok)
  \/ VideoSeeked

Spec == Init /\ [][Next]_vars

\* The license exchange on its own: it shares no state with playback.  Of the
\* three classes only part_003 attaches the remote player in its constructor.
InitDrm ==
  /\ variant \in DrmVariants
  /\ lifecycleState = "foreground"
  /\ delivered = FALSE
  /\ flag = FALSE
  /\ localTime = 0 /\ remoteTime = 0
  /\ localPaused = TRUE /\ remotePaused = TRUE
  /\ localUrl = None /\ remoteUrl = None
  /\ loadPc = "idle" /\ loadUrl = None /\ loadRemoteOk = TRUE /\ loadLocalOk = TRUE
  /\ loadAttempted = {} /\ loadErrors = 0
  /\ playPc = "idle" /\ playOk = TRUE /\ pausePc = "idle"
  /\ lastOp = "constructor" /\ arg = <<>> /\ calls = <<>> /\ warnings = 0 /\ events = <<>> /\ ret = <<>>
  /\ IF variant = SenzaShakaAttach
     THEN \E server \in Servers :
            drmListeners = <<[server |-> server, requestFilter |-> None,
                              responseFilter |-> None]>>
     ELSE drmListeners = <<>>
  /\ pending = {} /\ fired = 0
  /\ posts = <<>> /\ writes = <<>>
  /\ lastPost = NoPost /\ lastWrite = NoWrite
  /\ videoElement = "video" /\ videoListeners = TRUE /\ remoteListeners = TRUE
  /\ remoteAttached = (variant = UnifiedRemoteFirst)
  /\ destroyed = FALSE /\ elementPc = "idle" /\ registrations = 1
  /\ seekedPending = FALSE
  /\ NoTracks
  /\ observed = NotObserved

NextDrm ==
  \/ \E server \in Servers, requestFilter \in RequestFilters,
          responseFilter \in ResponseFilters :
       configureDrm(server, requestFilter, responseFilter)
  \/ \E payload \in LicensePayloads : LicenseRequest(payload)
  \/ \E x \in pending, status \in Statuses, data \in ResponseBodies :
       LicenseResponse(x, status, data)
  \/ \E x \in pending : LicenseFetchFails(x)

SpecDrm == InitDrm /\ [][NextDrm]_vars

\* Event forwarding and teardown, for all five variants.  shakaPlayer.js may be
\* constructed with or without an element; with one, the constructor adds the
\* element's listeners but leaves the remote player unattached.
InitEvents ==
  /\ variant \in PlaybackVariants \cup {SenzaShakaAttach}
  /\ lifecycleState \in UiStates
  /\ delivered = FALSE
  /\ flag = FALSE
  /\ localTime = 0 /\ remoteTime = 0
  /\ localPaused = TRUE /\ remotePaused = TRUE
  /\ localUrl = None /\ remoteUrl = None
  /\ loadPc = "idle" /\ loadUrl = None /\ loadRemoteOk = TRUE /\ loadLocalOk = TRUE
  /\ loadAttempted = {} /\ loadErrors = 0
  /\ playPc = "idle" /\ playOk = TRUE /\ pausePc = "idle"
  /\ lastOp = "constructor" /\ arg = <<>> /\ calls = <<>> /\ warnings = 0 /\ events = <<>> /\ ret = <<>>
  /\ drmListeners = <<>> /\ pending = {} /\ fired = 0
  /\ posts = <<>> /\ writes = <<>>
  /\ lastPost = NoPost /\ lastWrite = NoWrite
  /\ IF variant = SenzaShakaAttach
     THEN /\ videoElement \in {"undefined", "video"}
          /\ videoListeners = (videoElement = "video")
          /\ remoteAttached = FALSE
     ELSE /\ videoElement = "video"
          /\ videoListeners = TRUE
          /\ remoteAttached = (variant # UnifiedLocalFirst)
  /\ remoteListeners = TRUE
  /\ destroyed = FALSE /\ elementPc = "idle" /\ registrations = 1
  /\ seekedPending = FALSE
  /\ NoTracks
  /\ observed = NotObserved

NextEvents ==
  \/ \E s \in UiStates : LifecycleStateChange(s)
  \/ \E t \in Times : LocalTimeUpdate(t)
  \/ \E t \in Times : RemoteTimeUpdate(t)
  \/ \E t \in Times : VideoSeek(t)
  \/ VideoSeeked
  \/ VideoPlay
  \/ VideoPause
  \/ RemoteEnded
  \/ \E event \in ErrorEvents : RemoteError(event)
  \/ \E event \in ErrorEvents : LocalError(event)
  \/ \E url \in Urls : LoadCall(url, TRUE, TRUE)
  \/ LoadSettle
  \/ addVideoElementEventListeners
  \/ removeVideoElementEventListeners
  \/ addRemotePlayerEventListeners
  \/ removeRemotePlayerEventListeners
  \/ addEventListeners
  \/ Attach
  \/ AttachContinue
  \/ Detach
  \/ DetachContinue
  \/ \E unloadOk \in BOOLEAN : DetachUnloadSettle(unloadOk)
  \/ \E baseDetaches \in BOOLEAN : Destroy(baseDetaches)

SpecEvents == InitEvents /\ [][NextEvents]_vars

\* The facade's controls (pause, paused, skip) between lifecycle events, with
\* media that loads and plays on both engines.
InitControls ==
  /\ Init
  /\ variant \in FacadeVariants

NextControls ==
  \/ \E s \in UiStates : LifecycleStateChange(s)
  \/ \E url \in Urls : LoadCall(url, TRUE, TRUE)
  \/ LoadSettle
  \/ \E allowed \in BOOLEAN : PlayCall(allowed)
  \/ PlayLocalSettle
  \/ \E ok \in BOOLEAN : PlayRemoteSettle(ok)
  \/ Pause
  \/ PauseContinue
  \/ GetPaused
  \/ \E seconds \in SkipAmounts : Skip(seconds)
  \/ \E t \in Times : RemoteTimeUpdate(t)
  \/ VideoSeeked

SpecControls == InitControls /\ [][NextControls]_vars

\* Loading one asset after another in the shaka subclasses whose load looks at
\* the remote player's asset, across lifecycle events.
ReloadUrls == {"a.mpd", "b.mpd"}

InitReload ==
  /\ variant \in ElementDriven
  /\ lifecycleState \in UiStates
  /\ delivered = FALSE
  /\ flag = FALSE
  /\ localTime = 0 /\ remoteTime = 0
  /\ localPaused = TRUE /\ remotePaused = TRUE
  /\ localUrl = None /\ remoteUrl = None
  /\ loadPc = "idle" /\ loadUrl = None /\ loadRemoteOk = TRUE /\ loadLocalOk = TRUE
  /\ loadAttempted = {} /\ loadErrors = 0
  /\ playPc = "idle" /\ playOk = TRUE /\ pausePc = "idle"
  /\ lastOp = "constructor" /\ arg = <<>> /\ calls = <<>> /\ warnings = 0 /\ events = <<>> /\ ret = <<>>
  /\ drmListeners = <<>> /\ pending = {} /\ fired = 0
  /\ posts = <<>> /\ writes = <<>>
  /\ lastPost = NoPost /\ lastWrite = NoWrite
  /\ videoElement = "video" /\ videoListeners = TRUE /\ remoteListeners = TRUE
  /\ remoteAttached = (variant # SenzaShakaAttach)
  /\ destroyed = FALSE /\ elementPc = "idle" /\ registrations = 1
  /\ seekedPending = FALSE
  /\ NoTracks
  /\ observed = NotObserved

NextReload ==
  \/ \E s \in UiStates : LifecycleStateChange(s)
  \/ \E url \in ReloadUrls, remoteOk \in BOOLEAN, localOk \in BOOLEAN :
       LoadCall(url, remoteOk, localOk)
  \/ LoadSettle

SpecReload == InitReload /\ [][NextReload]_vars

\* The coordinator's methods next to the engines' events, with media that
\* loads on both engines: which of them dispatch a unified event.
NextForward ==
  \/ \E s \in UiStates : LifecycleStateChange(s)
  \/ \E url \in Urls : LoadCall(url, TRUE, TRUE)
  \/ LoadSettle
  \/ \E allowed \in BOOLEAN : PlayCall(allowed)
  \/ PlayLocalSettle
  \/ \E ok \in BOOLEAN : PlayRemoteSettle(ok)
  \/ Pause
  \/ PauseContinue
  \/ \E t \in Times : SetCurrentTime(t)
  \/ MoveToRemotePlayback
  \/ \E allowed \in BOOLEAN : MoveToLocalPlayback(allowed)
  \/ \E t \in Times : LocalTimeUpdate(t)
  \/ \E t \in Times : RemoteTimeUpdate(t)
  \/ VideoSeeked
  \/ \E type \in PassthroughTypes : VideoPassthrough(type)
  \/ LocalEnded
  \/ RemoteEnded
  \/ \E event \in ErrorEvents : RemoteError(event)
  \/ \E event \in ErrorEvents : LocalError(event)
  \/ addEventListeners

SpecForward == Init /\ [][NextForward]_vars

\* Track selection.  The classes an application selects tracks on,
\* constructed with or without an element; with one, the constructor adds the
\* element's listeners and, in part_005, attaches the remote player.  The
\* application attaches the element, loads, starts the element and selects
\* languages while the remote player reports its tracks.
InitSelection ==
  /\ variant \in TrackVariants
  /\ lifecycleState \in UiStates
  /\ delivered = FALSE
  /\ flag = FALSE
  /\ localTime = 0 /\ remoteTime = 0
  /\ localPaused = TRUE /\ remotePaused = TRUE
  /\ localUrl = None /\ remoteUrl = None
  /\ loadPc = "idle" /\ loadUrl = None /\ loadRemoteOk = TRUE /\ loadLocalOk = TRUE
  /\ loadAttempted = {} /\ loadErrors = 0
  /\ playPc = "idle" /\ playOk = TRUE /\ pausePc = "idle"
  /\ lastOp = "constructor" /\ arg = <<>> /\ calls = <<>> /\ warnings = 0 /\ events = <<>> /\ ret = <<>>
  /\ drmListeners = <<>> /\ pending = {} /\ fired = 0
  /\ posts = <<>> /\ writes = <<>>
  /\ lastPost = NoPost /\ lastWrite = NoWrite
  /\ videoElement \in {"undefined", "video"}
  /\ videoListeners = (videoElement = "video")
  /\ remoteAttached = (variant = ShakaTracks /\ videoElement = "video")
  /\ remoteListeners = TRUE
  /\ destroyed = FALSE /\ elementPc = "idle" /\ registrations = 1
  /\ seekedPending = FALSE
  /\ NoTracks
  /\ observed = NotObserved

NextTracks ==
  \/ \E s \in UiStates : LifecycleStateChange(s)
  \/ Attach
  \/ AttachContinue
  \/ \E url \in Urls : LoadCall(url, TRUE, TRUE)
  \/ LoadSettle
  \/ VideoPlay
  \/ VideoPause
  \/ WindowLoadContinue
  \/ \E tracks \in AudioTrackLists, audio \in Languages, text \in Languages :
       RemoteTracksUpdate(tracks, audio, text)
  \/ \E language \in Languages : SelectAudioLanguage(language)
  \/ \E language \in Languages : SelectTextLanguage(language)

SpecTracks == InitSelection /\ [][NextTracks]_vars

\* part_005: the ShakaPlayer with track selection
InitTracks ==
  /\ InitSelection
  /\ variant = ShakaTracks

\* The element's play, pause and seeked listeners in part_005: the element is
\* attached by the constructor or by attach(), loaded, and driven by the
\* application.
NextMedia ==
  \/ \E s \in UiStates : LifecycleStateChange(s)
  \/ Attach
  \/ addVideoElementEventListeners
  \/ removeVideoElementEventListeners
  \/ updateCurrentTime
  \/ addPlayerEventListeners
  \/ RemoteEnded
  \/ \E event \in ErrorEvents : RemoteError(event)
  \/ VideoPlay
  \/ VideoPause
  \/ \E t \in Times : VideoSeek(t)
  \/ VideoSeeked
  \/ \E url \in Urls, remoteOk \in BOOLEAN, localOk \in BOOLEAN :
       LoadCall(url, remoteOk, localOk)
  \/ LoadSettle

SpecMedia == InitTracks /\ [][NextMedia]_vars

\* UnifiedPlayer with its collaborators under observation
InitObserved ==
  /\ variant \in UnifiedVariants
  /\ lifecycleState \in UiStates
  /\ delivered = FALSE
  /\ flag = FALSE
  /\ localTime = 0 /\ remoteTime = 0
  /\ localPaused = TRUE /\ remotePaused = TRUE
  /\ localUrl = None /\ remoteUrl = None
  /\ loadPc = "idle" /\ loadUrl = None /\ loadRemoteOk = TRUE /\ loadLocalOk = TRUE
  /\ loadAttempted = {} /\ loadErrors = 0
  /\ playPc = "idle" /\ playOk = TRUE /\ pausePc = "idle"
  /\ lastOp = "constructor" /\ arg = <<>> /\ calls = <<>> /\ warnings = 0 /\ events = <<>> /\ ret = <<>>
  /\ drmListeners = <<>> /\ pending = {} /\ fired = 0
  /\ posts = <<>> /\ writes = <<>>
  /\ lastPost = NoPost /\ lastWrite = NoWrite
  /\ videoElement = "video" /\ videoListeners = TRUE /\ remoteListeners = TRUE
  /\ remoteAttached = (variant # UnifiedLocalFirst)
  /\ destroyed = FALSE /\ elementPc = "idle" /\ registrations = 1
  /\ seekedPending = FALSE
  /\ NoTracks
  /\ observed = NothingObserved

\* The end of remote playback: the lifecycle signal changes state of its own
\* accord or because it was asked to.  A request for the foreground it carries
\* out, whatever else goes on (weak fairness of LifecycleHonours).
NextEnded ==
  \/ \E s \in UiStates : LifecycleStateChange(s)
  \/ \E url \in Urls : LoadCall(url, TRUE, TRUE)
  \/ LoadSettle
  \/ \E t \in Times : RemoteTimeUpdate(t)
  \/ RemoteEnded
  \/ MoveToRemotePlayback
  \/ \E allowed \in BOOLEAN : MoveToLocalPlayback(allowed)

SpecEnded ==
  /\ InitObserved
  /\ [][NextEnded]_vars
  /\ WF_vars(LifecycleHonours("foreground"))

\* Every method and every handler of UnifiedPlayer next to lifecycle events of
\* any state, known or not: what changes the mode.
InitMode ==
  /\ Init
  /\ variant \in UnifiedVariants

NextMode ==
  \/ \E s \in LifecycleStates : LifecycleStateChange(s)
  \/ \E url \in Urls : LoadCall(url, TRUE, TRUE)
  \/ LoadSettle
  \/ \E allowed \in BOOLEAN : PlayCall(allowed)
  \/ PlayLocalSettle
  \/ Pause
  \/ \E t \in Times : SetCurrentTime(t)
  \/ MoveToRemotePlayback
  \/ \E allowed \in BOOLEAN : MoveToLocalPlayback(allowed)
  \/ variant \in DrmVariants /\ configureDrm(ProxyServer, None, None)
  \/ \E t \in Times : LocalTimeUpdate(t)
  \/ \E t \in Times : RemoteTimeUpdate(t)
  \/ RemoteEnded

SpecMode == InitMode /\ [][NextMode]_vars

\* UnifiedPlayer constructed in the foreground, its field followed next to the
\* getter of the shaka subclasses over the same lifecycle events.
InitSideBySide ==
  /\ Init
  /\ variant \in UnifiedVariants
  /\ lifecycleState = "foreground"

NextSideBySide ==
  \/ \E s \in UiStates : LifecycleStateChange(s)
  \/ \E url \in Urls : LoadCall(url, TRUE, TRUE)
  \/ LoadSettle
  \/ \E allowed \in BOOLEAN : PlayCall(allowed)
  \/ PlayLocalSettle
  \/ Pause
  \/ MoveToRemotePlayback
  \/ \E allowed \in BOOLEAN : MoveToLocalPlayback(allowed)
  \/ \E t \in Times : RemoteTimeUpdate(t)
  \/ VideoSeeked

SpecSideBySide == InitSideBySide /\ [][NextSideBySide]_vars

\* Positions and mode in UnifiedPlayer: timeupdate events of both engines,
\* seeks and moves to remote playback between lifecycle events, with what the
\* coordinator wrote to the remote player under observation.
NextResume ==
  \/ \E s \in UiStates : LifecycleStateChange(s)
  \/ \E url \in Urls : LoadCall(url, TRUE, TRUE)
  \/ LoadSettle
  \/ \E t \in Times : LocalTimeUpdate(t)
  \/ \E t \in Times : RemoteTimeUpdate(t)
  \/ \E t \in Times : SetCurrentTime(t)
  \/ VideoSeeked
  \/ MoveToRemotePlayback

SpecResume == InitObserved /\ [][NextResume]_vars

\* The license exchange with a license server that is configured once or more,
\* without filters.  Every HTTP request settles (weak fairness of
\* LicenseSettles): fetch resolves or rejects in the end, and the listener's
\* continuation runs when it does.
NextDrmSettling ==
  \/ configureDrm(ProxyServer, None, None)
  \/ \E payload \in LicensePayloads : LicenseRequest(payload)
  \/ \E x \in pending, status \in Statuses, data \in ResponseBodies :
       LicenseResponse(x, status, data)
  \/ \E x \in pending : LicenseFetchFails(x)

SpecDrmSettling ==
  /\ InitDrm
  /\ [][NextDrmSettling]_vars
  /\ WF_vars(LicenseSettles)
====
